---- MODULE Spec2Model ----
(***************************************************************************)
(* The fund valuation engine of louloulin/fundx (src/unnamed/part_000):    *)
(* calculateEstimatedNav, called by a presentation layer on the data the   *)
(* holdings provider and the quote provider have delivered so far, alone   *)
(* (Spec, SpecAnyRatio) or by several callers side by side                 *)
(* (SpecConcurrent); formatValuationResult on the results returned         *)
(* (SpecReport); getValuationColor and getValuationIcon (SpecClassify).    *)
(*                                                                         *)
(* Numbers.  The engine computes on JavaScript numbers.  The model keeps   *)
(* every decimal exactly, as an integer count of a fixed unit:             *)
(*   yuan amounts (lastNav, estimatedNav, estimatedChange)  1e-5 yuan      *)
(*   holding ratio, totalRatio, coverage                    1e-3 percent   *)
(*   quote changePercent, row changePercent                 1e-3 percent   *)
(*   contribution, weightedChangePercent,                                  *)
(*   estimatedChangePercent                                 1e-8 percent   *)
(*   prices                                                 1e-2 yuan      *)
(* so that each toFixed of the code has digits to round away, and toFixed  *)
(* is applied to the exact decimal value.  One number is carried as the    *)
(* IEEE-754 binary64 value as well: totalRatio, on which coverage >= 50 is *)
(* decided and which depends on the order of the additions                 *)
(* (SpecThreshold).  NaN is the one non-finite number the model carries.   *)
(* SpecPreciseQuotes runs the engine on quotes of three decimals.          *)
(*                                                                         *)
(* Beside the engine: the upstream fetchers getFundHoldings,               *)
(* verifyFundHoldingsApi and getFundNav with their abort timers (SpecFetch,*)
(* SpecFetchLive), the chat history hook useChatHistory (SpecChat) and the *)
(* stream of the agent chat relay (SpecRelay).                             *)
(***************************************************************************)
EXTENDS Integers, Sequences, FiniteSets, TLC

VARIABLES fundCode, fundName, lastNav, holdings, quotes, clock, calls,
          frames, locals, reports, badge, fetcher, chat, relay

vars == <<fundCode, fundName, lastNav, holdings, quotes, clock, calls,
          frames, locals, reports, badge, fetcher, chat, relay>>

(* ------------------------------ bounds -------------------------------- *)

MaxHoldings == 3
MaxQuotes == 2
MaxCalls == 2
MaxCallers == 2
MaxReportRows == 11
MaxChange == 50
MaxFetches == 2
MaxChatEvents == 3
MaxChunks == 3

(* ------------------------------ numbers ------------------------------- *)

\* units per yuan of lastNav, estimatedNav, estimatedChange
NavScale == 10^5
\* units per percent of a holding ratio
RatioScale == 10^3
\* units per percent of a quote's changePercent
PctScale == 10^3
\* units per percent of a contribution: (ratio / 100) * changePercent
ContribScale == RatioScale * 100 * PctScale
\* the fractional part of a wide number has two limbs of this base
FracBase == 10^5

\* the encoding of the number NaN
NaN == -(2^30)

IsNaN(x) == x = NaN

Abs(x) == IF x < 0 THEN -x ELSE x

Pow10(n) == 10^n

\* ToFixed cutting the digits off instead of rounding
ToFixed_truncates(x, scale, digits) ==
    IF IsNaN(x) THEN NaN
    ELSE LET step == scale \div Pow10(digits)
             n == Abs(x) \div step
         IN  IF x < 0 THEN -(n * step) ELSE n * step

\* x.toFixed(digits) read back by parseFloat, for x counted in units of
\* 1/scale: the multiple of 10^-digits nearest to x, the larger in magnitude
\* of two equally near ones; NaN formats as "NaN" and parses back to NaN.
ToFixed(x, scale, digits) ==
    IF IsNaN(x) THEN NaN
    ELSE LET step == scale \div Pow10(digits)
             n == (Abs(x) + step \div 2) \div step
         IN  IF x < 0 THEN -(n * step) ELSE n * step

\* A wide number int + frac / FracBase + sub / FracBase^2 with
\* 0 <= frac, sub < FracBase: the exact value of a product
\* lastNav * (weightedChangePercent / 100) and of sums with it, counted in
\* units of 1e-5 yuan.
Wide(i, f, s) == [int |-> i, frac |-> f, sub |-> s]

WideNaN == Wide(NaN, 0, 0)

WideIsWhole(w) == w.frac = 0 /\ w.sub = 0

WideNeg(w) ==
    IF WideIsWhole(w) THEN Wide(-w.int, 0, 0)
    ELSE IF w.sub = 0 THEN Wide(-w.int - 1, FracBase - w.frac, 0)
    ELSE Wide(-w.int - 1, FracBase - 1 - w.frac, FracBase - w.sub)

\* a * b / FracBase^2 for a, b >= 0, by limbs of 10^4 so that no partial
\* product leaves the 32-bit integers of TLC
WideMulNat(a, b) ==
    LET a1 == a \div 10^4
        a0 == a % 10^4
        b1 == b \div 10^4
        b0 == b % 10^4
        top == a1 * b1
        mid == a1 * b0 + a0 * b1
        low == a0 * b0
        tail == (mid % 10) * 10^4 + (low % FracBase)
        upper == top * 10^3 + (mid \div 10) + (low \div FracBase)
                     + (tail \div FracBase)
    IN  Wide(upper \div FracBase, upper % FracBase, tail % FracBase)

\* lastNav * (percent / 100): nav in units of 1e-5 yuan, percent in units of
\* 1e-8 percent
WideMul(nav, percent) ==
    IF IsNaN(nav) \/ IsNaN(percent) THEN WideNaN
    ELSE LET m == WideMulNat(Abs(nav), Abs(percent))
         IN  IF (nav < 0) = (percent < 0) THEN m ELSE WideNeg(m)

\* WideToFixed cutting the digits off instead of rounding
WideToFixed_truncates(w, digits) ==
    IF IsNaN(w.int) THEN NaN
    ELSE LET step == NavScale \div Pow10(digits)
             m == IF w.int < 0 THEN WideNeg(w) ELSE w
             n == m.int \div step
         IN  IF w.int < 0 THEN -(n * step) ELSE n * step

\* w.toFixed(digits) read back by parseFloat, in units of 1e-5 yuan, for
\* digits below the five of the unit
WideToFixed(w, digits) ==
    IF IsNaN(w.int) THEN NaN
    ELSE LET step == NavScale \div Pow10(digits)
             m == IF w.int < 0 THEN WideNeg(w) ELSE w
             n == m.int \div step + (IF 2 * (m.int % step) >= step THEN 1 ELSE 0)
         IN  IF w.int < 0 THEN -(n * step) ELSE n * step

\* WideAdd taking the change off instead of adding it
WideAdd_subtracts(nav, w) ==
    IF IsNaN(nav) \/ IsNaN(w.int) THEN WideNaN
    ELSE LET m == WideNeg(w) IN Wide(m.int + nav, m.frac, m.sub)

\* WideAdd adding the change as it is returned, after its rounding
WideAdd_roundedChange(nav, w) ==
    IF IsNaN(nav) \/ IsNaN(w.int) THEN WideNaN
    ELSE Wide(WideToFixed(w, 4) + nav, 0, 0)

\* nav + w
WideAdd(nav, w) ==
    IF IsNaN(nav) \/ IsNaN(w.int) THEN WideNaN
    ELSE Wide(w.int + nav, w.frac, w.sub)

(* ------------------------------ binary64 ------------------------------ *)

\* A finite double: sign * (hi * LimbBase + lo) * 2^(exp - 52) with the
\* 53-bit significand in two limbs, hi of 26 bits and lo of 27; zero has
\* sign 0.  The sums of ratios are carried in this form beside their exact
\* decimal value, because  coverage >= 50  is decided on the double.
LimbBase == 2^27
TopBit == 2^25
\* the binary places moved in one step, so that no step leaves the 32-bit
\* integers of TLC
Block == 13

Double(sign, exp, hi, lo) == [sign |-> sign, exp |-> exp, hi |-> hi, lo |-> lo]

DoubleZero == Double(0, 0, 0, 0)

\* a significand on its way: the limbs and three more bits below them, the
\* last of which is set when any lower bit was
Sig(hi, lo, tail) == [hi |-> hi, lo |-> lo, tail |-> tail]

\* the number of binary digits of q, 0 <= q < 2^30
BitLength(q) == CHOOSE n \in 0..30 : q < 2^n /\ (n = 0 \/ 2^(n - 1) <= q)

\* the significand moved right by bits places; what falls off the end sets
\* the last bit of the tail
RECURSIVE SigShiftRight(_, _)
SigShiftRight(m, bits) ==
    IF bits = 0 THEN m
    ELSE LET c == IF bits < Block THEN bits ELSE Block
             low == m.lo * 8 + m.tail
             kept == (m.hi % 2^c) * 2^(30 - c) + (low \div 2^c)
             sticky == IF low % 2^c # 0 /\ kept % 2 = 0 THEN kept + 1 ELSE kept
         IN  SigShiftRight(Sig(m.hi \div 2^c, sticky \div 8, sticky % 8),
                           IF bits > 5 * Block THEN 4 * Block ELSE bits - c)

\* the binary places the significand has to move left to set its top bit
LeadingZeros(m) ==
    IF m.hi > 0 THEN 26 - BitLength(m.hi)
    ELSE 26 + 30 - BitLength(m.lo * 8 + m.tail)

\* moves the significand left until its top bit is set, the tail moving in;
\* m is not zero
RECURSIVE SigNormalize(_, _)
SigNormalize(exp, m) ==
    IF LeadingZeros(m) = 0 THEN [exp |-> exp, sig |-> m]
    ELSE LET c == IF LeadingZeros(m) < Block THEN LeadingZeros(m) ELSE Block
             low == m.lo * 8 + m.tail
             moved == (low % 2^(30 - c)) * 2^c
         IN  SigNormalize(exp - c,
                 Sig(m.hi * 2^c + (low \div 2^(30 - c)), moved \div 8, moved % 8))

\* round to nearest, ties to even, of a significand whose limbs hold
\* 53 bits, at exponent exp
RoundSig(sign, exp, m) ==
    LET up == m.tail > 4 \/ (m.tail = 4 /\ m.lo % 2 = 1)
        lo == m.lo + (IF up THEN 1 ELSE 0)
        hi == m.hi + (lo \div LimbBase)
    IN  IF hi = 2 * TopBit THEN Double(sign, exp + 1, TopBit, 0)
        ELSE Double(sign, exp, hi, lo % LimbBase)

\* a is at least b in magnitude; neither is zero
MagnitudeGEq(a, b) ==
    \/ a.exp > b.exp
    \/ a.exp = b.exp /\ a.hi > b.hi
    \/ a.exp = b.exp /\ a.hi = b.hi /\ a.lo >= b.lo

\* a + b for a of the larger magnitude and both of one sign
AddMagnitudes(a, b) ==
    LET m == SigShiftRight(Sig(b.hi, b.lo, 0), a.exp - b.exp)
        lo == a.lo + m.lo
        sum == Sig(a.hi + m.hi + (lo \div LimbBase), lo % LimbBase, m.tail)
    IN  IF sum.hi >= 2 * TopBit
        THEN RoundSig(a.sign, a.exp + 1, SigShiftRight(sum, 1))
        ELSE RoundSig(a.sign, a.exp, sum)

\* a - b in magnitude for a of the larger magnitude and the signs opposed
SubtractMagnitudes(a, b) ==
    LET m == SigShiftRight(Sig(b.hi, b.lo, 0), a.exp - b.exp)
        tail == IF m.tail = 0 THEN 0 ELSE 8 - m.tail
        lo == a.lo - m.lo - (IF m.tail = 0 THEN 0 ELSE 1)
        hi == a.hi - m.hi - (IF lo < 0 THEN 1 ELSE 0)
        diff == Sig(hi, IF lo < 0 THEN lo + LimbBase ELSE lo, tail)
    IN  IF diff.hi = 0 /\ diff.lo = 0 /\ diff.tail = 0 THEN DoubleZero
        ELSE LET n == SigNormalize(a.exp, diff)
             IN  RoundSig(a.sign, n.exp, n.sig)

\* the + of two doubles
DoubleAdd(a, b) ==
    IF a.sign = 0 THEN b
    ELSE IF b.sign = 0 THEN a
    ELSE LET big == IF MagnitudeGEq(a, b) THEN a ELSE b
             small == IF MagnitudeGEq(a, b) THEN b ELSE a
         IN  IF a.sign = b.sign THEN AddMagnitudes(big, small)
             ELSE SubtractMagnitudes(big, small)

\* a >= b
DoubleGEq(a, b) ==
    IF a.sign # b.sign THEN a.sign > b.sign
    ELSE IF a.sign = 0 THEN TRUE
    ELSE IF a.sign = 1 THEN MagnitudeGEq(a, b)
    ELSE MagnitudeGEq(b, a)

\* long division: count more binary digits of rest / scale behind the
\* significand m, for scale < 2^17, and then the rounding on what is left
RECURSIVE QuotientBits(_, _, _, _, _, _)
QuotientBits(sign, exp, m, rest, scale, count) ==
    IF count = 0
    THEN RoundSig(sign, exp,
             Sig(m.hi, m.lo,
                 IF 2 * rest > scale THEN 5
                 ELSE IF 2 * rest = scale THEN 4
                 ELSE IF rest > 0 THEN 1 ELSE 0))
    ELSE LET c == IF count < Block THEN count ELSE Block
             digits == (rest * 2^c) \div scale
             lo == (m.lo % 2^(27 - c)) * 2^c + digits
         IN  QuotientBits(sign, exp,
                 Sig(m.hi * 2^c + (m.lo \div 2^(27 - c)), lo, 0),
                 (rest * 2^c) % scale, scale, count - c)

\* the place of the first binary digit 1 of rest / scale, 0 < rest < scale
BinaryPlace(rest, scale) ==
    CHOOSE n \in 1..Block : rest * 2^n >= scale /\ rest * 2^(n - 1) < scale

\* the double a decimal literal denotes: the one nearest to x / scale, for
\* scale < 2^17 and x / scale from 2^-13 up
DoubleOf(x, scale) ==
    IF x = 0 THEN DoubleZero
    ELSE LET sign == IF x < 0 THEN -1 ELSE 1
             q == Abs(x) \div scale
             rest == Abs(x) % scale
         IN  IF q = 0
             THEN LET n == BinaryPlace(rest, scale)
                  IN  QuotientBits(sign, -n, Sig(0, 1, 0),
                                   rest * 2^n - scale, scale, 52)
             ELSE QuotientBits(sign, BitLength(q) - 1, Sig(0, q, 0), rest,
                               scale, 53 - BitLength(q))

(* ------------------------------ the data ------------------------------ *)

\* FundHolding: stockCode, stockName, ratio (shares and reportDate are never
\* read by the engine)
FundHolding(code, name, ratio) ==
    [stockCode |-> code, stockName |-> name, ratio |-> ratio]

\* StockQuote: code, price, changePercent (change, prevClose and open are
\* never read by the engine)
StockQuote(code, price, changePercent) ==
    [code |-> code, price |-> price, changePercent |-> changePercent]

\* the positions the holdings provider may disclose; a disclosure lists a
\* position once, and two positions may be in the same stock
HoldingUniverse ==
    { FundHolding("A", "Alpha", 60000),
      FundHolding("B", "Beta", 40000),
      FundHolding("C", "Gamma", 9996),
      FundHolding("C", "Gamma", 10000) }

\* the quotes the quote provider may deliver; it delivers a quote once, and
\* two quotes may be for the same code
QuoteUniverse ==
    { StockQuote("A", 1050, 2000),
      StockQuote("A", 1051, 2013),
      StockQuote("B", 2475, -1000),
      StockQuote("C", 880, 0) }

\* positions as a caller may pass them without validation: the whole fund
\* in one stock, a ratio above 100, a negative ratio and a ratio of 0
AnyRatioUniverse ==
    { FundHolding("A", "Alpha", 100000),
      FundHolding("A", "Alpha", 150000),
      FundHolding("B", "Beta", -5000),
      FundHolding("C", "Gamma", 0) }

\* the prior-day net asset values: 1.2345, 3.00006 and NaN
NavUniverse == { 123450, 300006, NaN }

\* the arrays of up to n different elements of S
ArraysUpTo(S, n) ==
    { a \in UNION { [1..k -> S] : k \in 0..n } :
          \A i, j \in DOMAIN a : a[i] = a[j] => i = j }

(* ----------------------- calculateEstimatedNav ------------------------ *)

\* QuoteMapFrom keeping the first entry of a code instead of the last
RECURSIVE QuoteMapFrom_firstWins(_, _)
QuoteMapFrom_firstWins(qs, map) ==
    IF qs = << >> THEN map
    ELSE LET q == Head(qs)
         IN  QuoteMapFrom_firstWins(Tail(qs),
                 [c \in DOMAIN map \cup {q.code} |->
                     IF c \in DOMAIN map THEN map[c] ELSE q])

\* QuoteMapFrom that starts a new map at every entry: only the last quote
\* of the list is kept
QuoteMapFrom_keepsLastOnly(qs, map) ==
    IF qs = << >> THEN map
    ELSE [c \in {qs[Len(qs)].code} |-> qs[Len(qs)]]

\* quotes.forEach(q => quoteMap.set(q.code, q)): a later entry with the same
\* code replaces the earlier one
RECURSIVE QuoteMapFrom(_, _)
QuoteMapFrom(qs, map) ==
    IF qs = << >> THEN map
    ELSE LET q == Head(qs)
         IN  QuoteMapFrom(Tail(qs),
                 [c \in DOMAIN map \cup {q.code} |->
                     IF c = q.code THEN q ELSE map[c]])

\* quoteMap that answers for a code without a quote with the last quote of
\* the list
quoteMap_fallsBack(qs) ==
    LET map == QuoteMapFrom(qs, << >>)
    IN  IF qs = << >> THEN map
        ELSE [c \in DOMAIN map \cup { h.stockCode : h \in HoldingUniverse } |->
                 IF c \in DOMAIN map THEN map[c] ELSE qs[Len(qs)]]

\* const quoteMap = new Map(); quotes.forEach(q => quoteMap.set(q.code, q))
quoteMap(qs) == QuoteMapFrom(qs, << >>)

\* contribution leaving the weight out: every holding counts as the whole fund
contribution_unweighted(holding, quote) ==
    100 * RatioScale * quote.changePercent

\* const contribution = (holding.ratio / 100) * quote.changePercent
contribution(holding, quote) == holding.ratio * quote.changePercent

\* the detail row of a holding that has a quote
PricedRow(holding, quote) ==
    [code |-> holding.stockCode, name |-> holding.stockName,
     ratio |-> holding.ratio, currentPrice |-> quote.price,
     changePercent |-> quote.changePercent,
     contribution |-> contribution(holding, quote)]

\* the detail row of a holding that has no quote
UnpricedRow(holding) ==
    [code |-> holding.stockCode, name |-> holding.stockName,
     ratio |-> holding.ratio, currentPrice |-> 0,
     changePercent |-> 0, contribution |-> 0]

\* InitialLocals with totalRatio kept across calls instead of starting at 0
InitialLocals_stale ==
    [weightedChangePercent |-> 0,
     totalRatio |->
         IF calls = << >> THEN 0
         ELSE calls[Len(calls)].result.dataQuality.totalRatio,
     totalRatioDouble |->
         IF calls = << >> THEN DoubleZero
         ELSE DoubleOf(calls[Len(calls)].result.dataQuality.totalRatio,
                       RatioScale),
     validHoldings |-> 0,
     holdingDetails |-> << >>]

\* the locals of the function before the loop; totalRatio is kept as the
\* exact decimal sum and as the double the code holds
InitialLocals ==
    [weightedChangePercent |-> 0, totalRatio |-> 0,
     totalRatioDouble |-> DoubleZero, validHoldings |-> 0,
     holdingDetails |-> << >>]

\* LoopBody adding the ratio of a holding without a quote to totalRatio
LoopBody_countsUnpriced(acc, holding, map) ==
    IF holding.stockCode \in DOMAIN map
    THEN LET quote == map[holding.stockCode]
         IN  [weightedChangePercent |->
                  acc.weightedChangePercent + contribution(holding, quote),
              totalRatio |-> acc.totalRatio + holding.ratio,
              totalRatioDouble |->
                  DoubleAdd(acc.totalRatioDouble,
                            DoubleOf(holding.ratio, RatioScale)),
              validHoldings |-> acc.validHoldings + 1,
              holdingDetails |->
                  Append(acc.holdingDetails, PricedRow(holding, quote))]
    ELSE [acc EXCEPT !.totalRatio = @ + holding.ratio,
                     !.totalRatioDouble =
                         DoubleAdd(@, DoubleOf(holding.ratio, RatioScale)),
                     !.holdingDetails = Append(@, UnpricedRow(holding))]

\* LoopBody bringing the ratio of a holding into 0..100 before using it
LoopBody_clampsRatio(acc, holding, map) ==
    LET ratio == IF holding.ratio < 0 THEN 0
                 ELSE IF holding.ratio > 100 * RatioScale THEN 100 * RatioScale
                 ELSE holding.ratio
        clamped == [holding EXCEPT !.ratio = ratio]
    IN  IF holding.stockCode \in DOMAIN map
        THEN LET quote == map[holding.stockCode]
             IN  [weightedChangePercent |->
                      acc.weightedChangePercent + contribution(clamped, quote),
                  totalRatio |-> acc.totalRatio + ratio,
                  totalRatioDouble |->
                      DoubleAdd(acc.totalRatioDouble,
                                DoubleOf(ratio, RatioScale)),
                  validHoldings |-> acc.validHoldings + 1,
                  holdingDetails |->
                      Append(acc.holdingDetails, PricedRow(clamped, quote))]
        ELSE [acc EXCEPT !.holdingDetails = Append(@, UnpricedRow(clamped))]

\* one iteration of  for (const holding of holdings)
LoopBody(acc, holding, map) ==
    IF holding.stockCode \in DOMAIN map
    THEN LET quote == map[holding.stockCode]
         IN  [weightedChangePercent |->
                  acc.weightedChangePercent + contribution(holding, quote),
              totalRatio |-> acc.totalRatio + holding.ratio,
              totalRatioDouble |->
                  DoubleAdd(acc.totalRatioDouble,
                            DoubleOf(holding.ratio, RatioScale)),
              validHoldings |-> acc.validHoldings + 1,
              holdingDetails |->
                  Append(acc.holdingDetails, PricedRow(holding, quote))]
    ELSE [acc EXCEPT !.holdingDetails = Append(@, UnpricedRow(holding))]

\* Loop that passes over a holding whose stockCode already has a row
RECURSIVE Loop_skipsRepeatedCode(_, _, _)
Loop_skipsRepeatedCode(acc, hs, map) ==
    IF hs = << >> THEN acc
    ELSE IF \E k \in DOMAIN acc.holdingDetails :
                acc.holdingDetails[k].code = Head(hs).stockCode
    THEN Loop_skipsRepeatedCode(acc, Tail(hs), map)
    ELSE Loop_skipsRepeatedCode(LoopBody(acc, Head(hs), map), Tail(hs), map)

\* the whole loop, in the order of the holdings array
RECURSIVE Loop(_, _, _)
Loop(acc, hs, map) ==
    IF hs = << >> THEN acc
    ELSE Loop(LoopBody(acc, Head(hs), map), Tail(hs), map)

\* Comparator with its operands swapped: an ascending sort
Comparator_ascending(a, b) == a.contribution - b.contribution

\* the comparator of the sort: (a, b) => b.contribution - a.contribution;
\* a positive value moves b before a
Comparator(a, b) == b.contribution - a.contribution

\* InsertRow putting row before the rows it ties with: an unstable sort
RECURSIVE InsertRow_beforeEquals(_, _)
InsertRow_beforeEquals(sorted, row) ==
    IF sorted = << >> THEN << row >>
    ELSE IF Comparator(Head(sorted), row) >= 0
         THEN << row >> \o sorted
         ELSE << Head(sorted) >> \o InsertRow_beforeEquals(Tail(sorted), row)

\* inserts row into a sorted array behind every row that does not have to
\* come after it
RECURSIVE InsertRow(_, _)
InsertRow(sorted, row) ==
    IF sorted = << >> THEN << row >>
    ELSE IF Comparator(Head(sorted), row) > 0
         THEN << row >> \o sorted
         ELSE << Head(sorted) >> \o InsertRow(Tail(sorted), row)

\* holdingDetails.sort(comparator): Array.prototype.sort is stable
RECURSIVE SortRows(_, _)
SortRows(sorted, rows) ==
    IF rows = << >> THEN sorted
    ELSE SortRows(InsertRow(sorted, Head(rows)), Tail(rows))

sort(rows) == SortRows(<< >>, rows)

\* the digits of toFixed for estimatedNav and estimatedChange
NavDigits == 4
\* the digits of toFixed for estimatedChangePercent, totalRatio, coverage
PercentDigits == 2
\* const isReliable = coverage >= 50
ReliableCoverage == 50

\* isReliable decided on the coverage as it is returned, after rounding
isReliable_ofRounded(coverage, double) ==
    ToFixed(coverage, RatioScale, PercentDigits) >= ReliableCoverage * RatioScale

\* coverage >= 50, decided on the double that the additions of the loop
\* have left, not on the decimal value of the sum
isReliable(coverage, double) ==
    DoubleGEq(double, DoubleOf(ReliableCoverage * RatioScale, RatioScale))

\* estimatedChange taken from the percent as it is returned, after rounding
estimatedChangeOf_roundedPercent(nav, weighted) ==
    WideMul(nav, ToFixed(weighted, ContribScale, PercentDigits))

\* const estimatedChange = lastNav * (estimatedChangePercent / 100)
estimatedChangeOf(nav, weighted) == WideMul(nav, weighted)

\* lines 111-134: the ValuationResult built from the locals the loop has
\* left, at the instant now
ValuationResult(code, name, nav, acc, now) ==
    LET estimatedChangePercent == acc.weightedChangePercent
        estimatedChange == estimatedChangeOf(nav, estimatedChangePercent)
        estimatedNav == WideAdd(nav, estimatedChange)
        coverage == acc.totalRatio
    IN  [fundCode |-> code,
         fundName |-> name,
         lastNav |-> nav,
         estimatedNav |-> WideToFixed(estimatedNav, NavDigits),
         estimatedChange |-> WideToFixed(estimatedChange, NavDigits),
         estimatedChangePercent |->
             ToFixed(estimatedChangePercent, ContribScale, PercentDigits),
         calculationTime |-> now,
         holdings |-> sort(acc.holdingDetails),
         dataQuality |->
             [totalRatio |-> ToFixed(acc.totalRatio, RatioScale, PercentDigits),
              coverage |-> ToFixed(coverage, RatioScale, PercentDigits),
              isReliable |-> isReliable(coverage, acc.totalRatioDouble)]]

\* the ValuationResult of a call at the instant now
calculateEstimatedNav(code, name, nav, hs, qs, now) ==
    ValuationResult(code, name, nav, Loop(InitialLocals, hs, quoteMap(qs)), now)

\* argumentsAfter with the sort applied to the caller's holdings instead of
\* the detail rows
argumentsAfter_sortsHoldings(hs, qs) ==
    LET map == quoteMap(qs)
        keyed == [i \in DOMAIN hs |->
                     [holding |-> hs[i],
                      contribution |->
                          IF hs[i].stockCode \in DOMAIN map
                          THEN contribution(hs[i], map[hs[i].stockCode])
                          ELSE 0]]
        sorted == sort(keyed)
    IN  [holdings |-> [i \in DOMAIN hs |-> sorted[i].holding], quotes |-> qs]

\* the caller's arrays when the call has returned: the function reads
\* holdings by for...of and quotes by forEach, assigns to no element of
\* either, and sorts holdingDetails, the array it has allocated itself
argumentsAfter(hs, qs) == [holdings |-> hs, quotes |-> qs]

(* --------------------------- the state machine ------------------------ *)

\* nothing classified yet
NoBadge == [shown |-> FALSE]

\* the callers that may have a call under way at the same time
Callers == 1..MaxCallers

\* the frame of a caller that has no call under way
IdleFrame == [pc |-> "idle"]

callerVars == <<frames, locals>>

\* no upstream call under way and none made yet
FetcherAtRest ==
    [pc |-> "idle", fn |-> "none", url |-> 0, timer |-> "none",
     events |-> << >>, done |-> << >>]

\* the chat history before the hook is mounted
ChatAtRest ==
    [mounted |-> FALSE, sessions |-> << >>, currentSessionId |-> 0,
     stored |-> [item |-> "null"], now |-> 3,
     last |-> [op |-> "none", id |-> 0]]

\* the relay before a request
RelayAtRest ==
    [pc |-> "idle", events |-> << >>, closes |-> 0, tools |-> << >>,
     chunks |-> 0]

serviceVars == <<fetcher, chat, relay>>

ServicesAtRest ==
    /\ fetcher = FetcherAtRest
    /\ chat = ChatAtRest
    /\ relay = RelayAtRest

NoCallUnderWay ==
    /\ frames = [k \in Callers |-> IdleFrame]
    /\ locals = [k \in Callers |-> InitialLocals]

Init ==
    /\ fundCode = "000001"
    /\ fundName = "Fund"
    /\ lastNav \in NavUniverse
    /\ holdings \in ArraysUpTo(HoldingUniverse, MaxHoldings)
    /\ quotes = << >>
    /\ clock = 0
    /\ calls = << >>
    /\ NoCallUnderWay
    /\ reports = << >>
    /\ badge = NoBadge
    /\ ServicesAtRest

\* the quote provider delivers one more quote
QuoteArrives ==
    /\ Len(quotes) < MaxQuotes
    /\ \E q \in QuoteUniverse :
           /\ \A i \in DOMAIN quotes : quotes[i] # q
           /\ quotes' = Append(quotes, q)
    /\ UNCHANGED <<fundCode, fundName, lastNav, holdings, clock, calls>>
    /\ UNCHANGED <<callerVars, reports, badge, serviceVars>>

\* a caller invokes calculateEstimatedNav on the data at hand; the function
\* has no throw statement and returns on every input; new Date() reads the
\* clock, which has advanced by the next call
Estimate ==
    /\ Len(calls) < MaxCalls
    /\ calls' = Append(calls,
           [lastNav |-> lastNav, holdings |-> holdings, quotes |-> quotes,
            outcome |-> "returned",
            result |-> calculateEstimatedNav(fundCode, fundName, lastNav,
                                             holdings, quotes, clock)])
    /\ holdings' = argumentsAfter(holdings, quotes).holdings
    /\ quotes' = argumentsAfter(holdings, quotes).quotes
    /\ clock' = clock + 1
    /\ UNCHANGED <<fundCode, fundName, lastNav>>
    /\ UNCHANGED <<callerVars, reports, badge, serviceVars>>

Next == QuoteArrives \/ Estimate

Spec == Init /\ [][Next]_vars

\* the same calls on holdings that no one has validated
InitAnyRatio ==
    /\ fundCode = "000001"
    /\ fundName = "Fund"
    /\ lastNav \in NavUniverse
    /\ holdings \in ArraysUpTo(AnyRatioUniverse, MaxHoldings)
    /\ quotes = << >>
    /\ clock = 0
    /\ calls = << >>
    /\ NoCallUnderWay
    /\ reports = << >>
    /\ badge = NoBadge
    /\ ServicesAtRest

SpecAnyRatio == InitAnyRatio /\ [][Next]_vars

\* positions whose ratios sum to 50 in decimal: 23.04, 20.45 and 6.51
ThresholdUniverse ==
    { FundHolding("A", "Alpha", 23040),
      FundHolding("B", "Beta", 20450),
      FundHolding("A", "Alpha", 6510) }

\* the same calls on a disclosure whose coverage is at the threshold of
\* isReliable
InitThreshold ==
    /\ fundCode = "000001"
    /\ fundName = "Fund"
    /\ lastNav \in NavUniverse
    /\ holdings \in ArraysUpTo(ThresholdUniverse, MaxHoldings)
    /\ quotes = << >>
    /\ clock = 0
    /\ calls = << >>
    /\ NoCallUnderWay
    /\ reports = << >>
    /\ badge = NoBadge
    /\ ServicesAtRest

SpecThreshold == InitThreshold /\ [][Next]_vars

\* positions that fill the fund, alone or together, one that overfills it
\* with another, and a negative one
WholeFundUniverse ==
    { FundHolding("A", "Alpha", 100000),
      FundHolding("A", "Alpha", 60000),
      FundHolding("B", "Beta", 40000),
      FundHolding("B", "Beta", -5000) }

\* quotes whose changePercent has three decimals: +2.016, -2.016, -1.004
\* and +1.5
PreciseQuoteUniverse ==
    { StockQuote("A", 1051, 2016),
      StockQuote("A", 1049, -2016),
      StockQuote("B", 2475, -1004),
      StockQuote("B", 2480, 1500) }

InitPreciseQuotes ==
    /\ fundCode = "000001"
    /\ fundName = "Fund"
    /\ lastNav \in NavUniverse
    /\ holdings \in ArraysUpTo(WholeFundUniverse, MaxHoldings)
    /\ quotes = << >>
    /\ clock = 0
    /\ calls = << >>
    /\ NoCallUnderWay
    /\ reports = << >>
    /\ badge = NoBadge
    /\ ServicesAtRest

\* the quote provider delivers one more quote, of a feed that carries three
\* decimals
PreciseQuoteArrives ==
    /\ Len(quotes) < MaxQuotes
    /\ \E q \in PreciseQuoteUniverse :
           /\ \A i \in DOMAIN quotes : quotes[i] # q
           /\ quotes' = Append(quotes, q)
    /\ UNCHANGED <<fundCode, fundName, lastNav, holdings, clock, calls>>
    /\ UNCHANGED <<callerVars, reports, badge, serviceVars>>

NextPreciseQuotes == PreciseQuoteArrives \/ Estimate

SpecPreciseQuotes == InitPreciseQuotes /\ [][NextPreciseQuotes]_vars

(* ---------------------- calls that run side by side ------------------- *)

\* slot with one storage for the locals of every invocation, as variables
\* of the module would be
slot_shared(k) == 1

\* where the locals of the invocation of caller k live: lines 68-76 declare
\* them with const and let inside the function, one set per invocation
slot(k) == k

\* lines 60-76: caller k enters the function with the data at hand; the
\* function builds quoteMap and sets its locals
Begin(k) ==
    /\ frames[k].pc = "idle"
    /\ frames' = [frames EXCEPT ![k] =
           [pc |-> "loop", fundCode |-> fundCode, fundName |-> fundName,
            lastNav |-> lastNav, holdings |-> holdings, quotes |-> quotes,
            quoteMap |-> quoteMap(quotes), rest |-> holdings]]
    /\ locals' = [locals EXCEPT ![slot(k)] = InitialLocals]
    /\ UNCHANGED <<fundCode, fundName, lastNav, holdings, quotes, clock, calls,
                   reports, badge, serviceVars>>

\* lines 78-108: the invocation of caller k runs one iteration of its loop
Step(k) ==
    /\ frames[k].pc = "loop"
    /\ frames[k].rest # << >>
    /\ locals' = [locals EXCEPT ![slot(k)] =
           LoopBody(locals[slot(k)], Head(frames[k].rest), frames[k].quoteMap)]
    /\ frames' = [frames EXCEPT ![k].rest = Tail(@)]
    /\ UNCHANGED <<fundCode, fundName, lastNav, holdings, quotes, clock, calls,
                   reports, badge, serviceVars>>

\* lines 111-134: the loop of caller k is over, the invocation reads the
\* clock and returns
Return(k) ==
    /\ frames[k].pc = "loop"
    /\ frames[k].rest = << >>
    /\ calls' = Append(calls,
           [lastNav |-> frames[k].lastNav, holdings |-> frames[k].holdings,
            quotes |-> frames[k].quotes, outcome |-> "returned",
            result |-> ValuationResult(frames[k].fundCode, frames[k].fundName,
                           frames[k].lastNav, locals[slot(k)], clock)])
    /\ clock' = clock + 1
    /\ frames' = [frames EXCEPT ![k] = [pc |-> "done"]]
    /\ UNCHANGED <<fundCode, fundName, lastNav, holdings, quotes, locals,
                   reports, badge, serviceVars>>

\* every caller makes one call; quotes keep arriving while the calls run
NextConcurrent ==
    \/ QuoteArrives
    \/ \E k \in Callers : Begin(k)
    \/ \E k \in Callers : Step(k)
    \/ \E k \in Callers : Return(k)

\* the disclosures the side-by-side calls are made on: two positions, and
\* three with one that never has a quote before a call begins
SideBySideUniverse ==
    { << FundHolding("A", "Alpha", 60000), FundHolding("B", "Beta", 40000) >>,
      << FundHolding("B", "Beta", 40000), FundHolding("C", "Gamma", 9996),
         FundHolding("A", "Alpha", 60000) >> }

InitConcurrent ==
    /\ fundCode = "000001"
    /\ fundName = "Fund"
    /\ lastNav \in NavUniverse
    /\ holdings \in SideBySideUniverse
    /\ quotes = << >>
    /\ clock = 0
    /\ calls = << >>
    /\ NoCallUnderWay
    /\ reports = << >>
    /\ badge = NoBadge
    /\ ServicesAtRest

SpecConcurrent == InitConcurrent /\ [][NextConcurrent]_vars

(* ------------------------ formatValuationResult ----------------------- *)

\* units per yuan of a price
PriceScale == 10^2

\* the text of x.toFixed(digits) for x counted in units of 1/scale: "NaN",
\* or a "-" when x is below 0, then the count of 10^-digits nearest to the
\* magnitude of x, written with that many decimals
toFixed(x, scale, digits) ==
    IF IsNaN(x)
    THEN [nan |-> TRUE, minus |-> FALSE, count |-> 0, digits |-> digits]
    ELSE [nan |-> FALSE, minus |-> x < 0,
          count |-> Abs(ToFixed(x, scale, digits)) \div (scale \div Pow10(digits)),
          digits |-> digits]

\* plus giving no '+' to a zero
plus_positiveOnly(x) == IF ~IsNaN(x) /\ x > 0 THEN "+" ELSE ""

\* x >= 0 ? '+' : ''  (NaN >= 0 is false)
plus(x) == IF ~IsNaN(x) /\ x >= 0 THEN "+" ELSE ""

\* new Date(calculationTime).toLocaleString('zh-CN')
toLocaleString(time) == [locale |-> "zh-CN", instant |-> time]

\* the rows the table shows
TopRows == 10

\* slice keeping every element
slice_keepsAll(array, begin, end) == array

\* array.slice(begin, end) for 0 <= begin <= end: the elements at the
\* 0-based positions begin .. end - 1 that the array has
slice(array, begin, end) ==
    SubSeq(array, begin + 1, IF end < Len(array) THEN end ELSE Len(array))

\* reliabilityLabel calling every estimate reliable
reliabilityLabel_alwaysReliable(flag) == "reliable"

\* isReliable ? (check mark) reliable : (warning sign) data insufficient
reliabilityLabel(flag) == IF flag THEN "reliable" ELSE "data insufficient"

\* line 166: the table line of one detail row
RowLine(h) ==
    [kind |-> "row", code |-> h.code, name |-> h.name,
     ratio |-> toFixed(h.ratio, RatioScale, 2),
     currentPrice |-> toFixed(h.currentPrice, PriceScale, 2),
     changeSign |-> plus(h.changePercent),
     changePercent |-> toFixed(h.changePercent, PctScale, 2),
     sign |-> plus(h.contribution),
     contribution |-> toFixed(h.contribution, ContribScale, 3)]

\* lines 143-172: the lines of the report, in the order they are pushed
formatValuationResult(result) ==
    << [kind |-> "title", fundName |-> result.fundName,
        fundCode |-> result.fundCode],
       [kind |-> "blank"],
       [kind |-> "lastNav", value |-> toFixed(result.lastNav, NavScale, 4)],
       [kind |-> "estimatedNav",
        value |-> toFixed(result.estimatedNav, NavScale, 4)],
       [kind |-> "estimatedChange",
        sign |-> plus(result.estimatedChange),
        value |-> toFixed(result.estimatedChange, NavScale, 4),
        percentSign |-> plus(result.estimatedChangePercent),
        percent |-> toFixed(result.estimatedChangePercent, ContribScale, 2)],
       [kind |-> "blank"],
       [kind |-> "calculationTime",
        value |-> toLocaleString(result.calculationTime)],
       [kind |-> "blank"],
       [kind |-> "dataQuality"],
       [kind |-> "coverage",
        value |-> toFixed(result.dataQuality.coverage, RatioScale, 2)],
       [kind |-> "reliability",
        label |-> reliabilityLabel(result.dataQuality.isReliable)],
       [kind |-> "blank"],
       [kind |-> "topHoldings"],
       [kind |-> "blank"],
       [kind |-> "tableHead"],
       [kind |-> "tableRule"] >>
    \o [i \in DOMAIN slice(result.holdings, 0, TopRows) |->
           RowLine(slice(result.holdings, 0, TopRows)[i])]
    \o << [kind |-> "blank"], [kind |-> "note"] >>

\* resultAfterFormat with splice in the place of slice: the rows shown are
\* taken out of the result
resultAfterFormat_splices(result) ==
    [result EXCEPT !.holdings =
        IF Len(@) <= TopRows THEN << >> ELSE SubSeq(@, TopRows + 1, Len(@))]

\* the result object when formatValuationResult has returned: the function
\* reads its fields and assigns to none; slice copies the rows it shows
resultAfterFormat(result) == result

\* the position i of a disclosure as long as the report needs: the stocks
\* A, D, B, C in turn, D without a quote, with falling ratios
ReportPosition(i) ==
    IF i = 1 THEN FundHolding("B", "Beta", 40000)
    ELSE IF i = 2 THEN FundHolding("C", "Gamma", 9996)
    ELSE LET stock == << <<"A", "Alpha">>, <<"D", "Delta">>,
                         <<"B", "Beta">>, <<"C", "Gamma">> >>[(i % 4) + 1]
         IN  FundHolding(stock[1], stock[2], 500 * (30 - i))

InitReport ==
    /\ fundCode = "000001"
    /\ fundName = "Fund"
    /\ lastNav \in NavUniverse
    /\ holdings \in { [i \in 1..n |-> ReportPosition(i)] : n \in 0..MaxReportRows }
    /\ quotes = << >>
    /\ clock = 0
    /\ calls = << >>
    /\ NoCallUnderWay
    /\ reports = << >>
    /\ badge = NoBadge
    /\ ServicesAtRest

\* the presentation layer formats the results in the order they were
\* returned
Format ==
    /\ Len(reports) < Len(calls)
    /\ LET n == Len(reports) + 1
           result == calls[n].result
       IN  /\ reports' = Append(reports,
                  [result |-> result, text |-> formatValuationResult(result)])
           /\ calls' = [calls EXCEPT ![n].result = resultAfterFormat(result)]
    /\ UNCHANGED <<fundCode, fundName, lastNav, holdings, quotes, clock,
                   callerVars, badge, serviceVars>>

NextReport == QuoteArrives \/ Estimate \/ Format

SpecReport == InitReport /\ [][NextReport]_vars

(* --------------- getValuationColor and getValuationIcon --------------- *)

\* lines 178-182; the comparisons > and < are false for NaN
getValuationColor(changePercent) ==
    IF ~IsNaN(changePercent) /\ changePercent > 0 THEN "text-red-500"
    ELSE IF ~IsNaN(changePercent) /\ changePercent < 0 THEN "text-green-500"
    ELSE "text-gray-500"

\* getValuationIcon showing the rising chart for a change of zero
getValuationIcon_zeroRises(changePercent) ==
    IF ~IsNaN(changePercent) /\ changePercent >= 0 THEN "chart rising"
    ELSE IF ~IsNaN(changePercent) /\ changePercent < 0 THEN "chart falling"
    ELSE "arrow right"

\* lines 187-191: the emoji of a rising chart, of a falling chart and of an
\* arrow to the right
getValuationIcon(changePercent) ==
    IF ~IsNaN(changePercent) /\ changePercent > 0 THEN "chart rising"
    ELSE IF ~IsNaN(changePercent) /\ changePercent < 0 THEN "chart falling"
    ELSE "arrow right"

\* the percentages a caller may classify, in units of 1e-3 percent, and NaN
ChangeUniverse == (-MaxChange..MaxChange) \cup {NaN}

InitClassify ==
    /\ fundCode = "000001"
    /\ fundName = "Fund"
    /\ lastNav = NaN
    /\ holdings = << >>
    /\ quotes = << >>
    /\ clock = 0
    /\ calls = << >>
    /\ NoCallUnderWay
    /\ reports = << >>
    /\ badge = NoBadge
    /\ ServicesAtRest

\* the presentation layer asks for the colour and the icon of a percentage
Classify ==
    /\ \E x \in ChangeUniverse :
           badge' = [shown |-> TRUE, changePercent |-> x,
                     color |-> getValuationColor(x),
                     icon |-> getValuationIcon(x)]
    /\ UNCHANGED <<fundCode, fundName, lastNav, holdings, quotes, clock, calls,
                   callerVars, reports, serviceVars>>

NextClassify == Classify

SpecClassify == InitClassify /\ [][NextClassify]_vars

(* ------------------------- the upstream fetchers ---------------------- *)

\* getFundNav returns null when no URL has answered with data
Null == [isNull |-> TRUE]

\* the fetchers: getFundHoldings and verifyFundHoldingsApi guard fetch with
\* an AbortController and setTimeout, getFundNav with AbortSignal.timeout
Fetchers == { "getFundHoldings", "verifyFundHoldingsApi", "getFundNav" }

\* the URLs a fetcher tries in turn
Urls(fn) == IF fn = "getFundNav" THEN 2 ELSE 1

\* the status codes the upstream may answer with
StatusUniverse == { 200, 404, 503 }

\* response.ok
ok(status) == status >= 200 /\ status <= 299

\* the bodies the upstream may send: what the parsers find in them.  rows
\* are the table rows with a code, a name and a ratio; nav is the value in
\* the cell that the pattern of getFundNav captures, 0 when the pattern
\* does not match; throws stands for a body on which the parser throws
Body(rows, nav, throws) == [rows |-> rows, nav |-> nav, throws |-> throws]

BodyUniverse ==
    { Body(2, 0, FALSE), Body(0, 0, FALSE), Body(0, 12345, FALSE),
      Body(0, 0, TRUE) }

\* the value of the catch blocks of the holdings fetcher and its parser
EmptyParseResult ==
    [success |-> FALSE, holdings |-> << >>, total |-> 0, failed |-> TRUE]

\* parseFundHoldings: the rows found in the page, the empty result when
\* the parsing throws
parseFundHoldings(html) ==
    IF html.throws THEN EmptyParseResult
    ELSE [success |-> html.rows > 0,
          holdings |-> [i \in 1..html.rows |-> i],
          total |-> html.rows, failed |-> FALSE]

\* what has happened to one attempt: the upstream answered with a status
\* that is not ok, the connection failed, the timer aborted the attempt, or
\* a body has arrived
Event(kind, url, text) == [kind |-> kind, url |-> url, text |-> text]

NoText == Body(0, 0, FALSE)

\* the call is over: it is appended to the calls made
Settle(f, event, outcome, result) ==
    [f EXCEPT !.pc = "idle", !.events = << >>,
              !.done = Append(@, [fn |-> f.fn,
                                  events |-> Append(f.events, event),
                                  outcome |-> outcome,
                                  result |-> result])]

\* nextUrl that gives up at the first URL that fails
nextUrl_givesUp(f, event) == Settle(f, event, "returned", Null)

\* getFundNav goes on with the next URL, with a new AbortSignal.timeout,
\* and returns null after the last
nextUrl(f, event) ==
    IF f.url < Urls(f.fn)
    THEN [f EXCEPT !.url = @ + 1, !.pc = "awaitFetch", !.timer = "armed",
                   !.events = Append(@, event)]
    ELSE Settle(f, event, "returned", Null)

\* catch that lets the exception out of getFundHoldings
catch_rethrows(f, event) ==
    IF f.fn = "getFundHoldings"
    THEN Settle(f, event, "threw", Null)
    ELSE IF f.fn = "verifyFundHoldingsApi"
    THEN Settle(f, event, "returned",
                [status |-> IF event.kind = "abort" THEN "timeout"
                            ELSE "error"])
    ELSE nextUrl(f, event)

\* the catch block of the fetcher, entered when an awaited promise rejects
catch(f, event) ==
    IF f.fn = "getFundHoldings"
    THEN Settle(f, event, "returned", EmptyParseResult)
    ELSE IF f.fn = "verifyFundHoldingsApi"
    THEN Settle(f, event, "returned",
                [status |-> IF event.kind = "abort" THEN "timeout"
                            ELSE "error"])
    ELSE nextUrl(f, event)

\* the code between await fetch and await response.text(): the fetchers
\* with an AbortController clear its timer, then every fetcher looks at
\* response.ok.  getFundHoldings throws into its catch block,
\* verifyFundHoldingsApi returns an error, getFundNav goes on
afterHeaders(f, status) ==
    IF f.fn = "getFundNav"
    THEN IF ok(status) THEN [f EXCEPT !.pc = "awaitText"]
         ELSE nextUrl(f, Event("notOk", f.url, NoText))
    ELSE LET g == [f EXCEPT !.timer = "cleared"]
         IN  IF ~ok(status)
             THEN IF f.fn = "getFundHoldings"
                  THEN catch(g, Event("notOk", f.url, NoText))
                  ELSE Settle(g, Event("notOk", f.url, NoText), "returned",
                              [status |-> "error"])
             ELSE [g EXCEPT !.pc = "awaitText"]

\* the code after await response.text()
afterBody(f, text) ==
    LET event == Event("body", f.url, text)
    IN  IF f.fn = "getFundHoldings"
        THEN Settle(f, event, "returned", parseFundHoldings(text))
        ELSE IF f.fn = "verifyFundHoldingsApi"
        THEN Settle(f, event, "returned", [status |-> "success"])
        ELSE IF text.nav # 0
             THEN Settle(f, event, "returned",
                         [isNull |-> FALSE, nav |-> text.nav])
             ELSE nextUrl(f, event)

InitFetch ==
    /\ fundCode = "000001"
    /\ fundName = "Fund"
    /\ lastNav = NaN
    /\ holdings = << >>
    /\ quotes = << >>
    /\ clock = 0
    /\ calls = << >>
    /\ NoCallUnderWay
    /\ reports = << >>
    /\ badge = NoBadge
    /\ ServicesAtRest

estimatorVars ==
    <<fundCode, fundName, lastNav, holdings, quotes, clock, calls,
      callerVars, reports, badge>>

\* a caller invokes a fetcher: the timer is armed and fetch is awaited
Fetch ==
    /\ fetcher.pc = "idle"
    /\ Len(fetcher.done) < MaxFetches
    /\ \E fn \in Fetchers :
           fetcher' = [fetcher EXCEPT !.pc = "awaitFetch", !.fn = fn,
                                      !.url = 1, !.timer = "armed"]
    /\ UNCHANGED <<estimatorVars, chat, relay>>

\* the upstream sends the headers of its response: fetch resolves
HeadersArrive ==
    /\ fetcher.pc = "awaitFetch"
    /\ \E status \in StatusUniverse :
           fetcher' = afterHeaders(fetcher, status)
    /\ UNCHANGED <<estimatorVars, chat, relay>>

\* the connection fails before the headers: fetch rejects
FetchFails ==
    /\ fetcher.pc = "awaitFetch"
    /\ fetcher' = catch(fetcher, Event("network", fetcher.url, NoText))
    /\ UNCHANGED <<estimatorVars, chat, relay>>

\* the upstream sends the rest of the body: response.text() resolves
BodyArrives ==
    /\ fetcher.pc = "awaitText"
    /\ \E text \in BodyUniverse : fetcher' = afterBody(fetcher, text)
    /\ UNCHANGED <<estimatorVars, chat, relay>>

\* the connection fails while the body is read: response.text() rejects
BodyFails ==
    /\ fetcher.pc = "awaitText"
    /\ fetcher' = catch(fetcher, Event("network", fetcher.url, NoText))
    /\ UNCHANGED <<estimatorVars, chat, relay>>

\* the timer of the call under way is due: the signal aborts, the awaited
\* promise rejects with an AbortError, and the catch block runs
TimerFires ==
    /\ fetcher.pc \in { "awaitFetch", "awaitText" }
    /\ fetcher.timer = "armed"
    /\ fetcher' = catch([fetcher EXCEPT !.timer = "fired"],
                        Event("abort", fetcher.url, NoText))
    /\ UNCHANGED <<estimatorVars, chat, relay>>

NextFetch ==
    \/ Fetch
    \/ HeadersArrive
    \/ FetchFails
    \/ BodyArrives
    \/ BodyFails
    \/ TimerFires

SpecFetch == InitFetch /\ [][NextFetch]_vars

\* the event loop runs the callback of a timer that is due; when the
\* upstream sends anything is up to the upstream
SpecFetchLive == SpecFetch /\ WF_vars(TimerFires)

(* --------------------------- useChatHistory --------------------------- *)

\* the message every new session starts with
Welcome == [id |-> "welcome", role |-> "assistant", length |-> 28]

\* the messages a conversation may hold: the welcome alone, or followed by
\* a short or a long question of the user
MessagesUniverse ==
    { <<Welcome>>,
      <<Welcome, [id |-> "m1", role |-> "user", length |-> 5]>>,
      <<Welcome, [id |-> "m1", role |-> "user", length |-> 32]>> }

\* the title of a new session
NewTitle == [from |-> "new", chars |-> 3, ellipsis |-> FALSE]

\* characters of the first question that the title keeps
TitleChars == 20

\* messages.find(m => m.role === 'user'): the place of the first message
\* of the user, 0 when there is none
firstUserMessage(messages) ==
    IF \E i \in DOMAIN messages : messages[i].role = "user"
    THEN CHOOSE i \in DOMAIN messages :
             /\ messages[i].role = "user"
             /\ \A j \in DOMAIN messages : messages[j].role = "user" => i <= j
    ELSE 0

\* content.slice(0, 20) + (content.length > 20 ? '...' : ''), or the title
\* the session has when no message is the user's
titleOf(session, messages) ==
    LET first == firstUserMessage(messages)
    IN  IF first = 0 THEN session.title
        ELSE [from |-> messages[first].id,
              chars |-> IF messages[first].length > TitleChars
                        THEN TitleChars ELSE messages[first].length,
              ellipsis |-> messages[first].length > TitleChars]

\* the session createNewSession builds at the instant now: its id is
\* `session_${Date.now()}`
NewSession(now) ==
    [id |-> now, title |-> NewTitle, createdAt |-> now,
     messages |-> <<Welcome>>]

\* the value of localStorage.getItem('chatSessions') that was never set
NoItem == [item |-> "null"]

\* a value of the item that JSON.parse rejects
Corrupt == [item |-> "corrupt"]

\* the item as JSON.stringify(sessions) has written it
Item(sessions) == [item |-> "json", sessions |-> sessions]

\* what the browser may hold when the hook mounts: nothing, an item that
\* does not parse, an empty list, one session or two
StoredUniverse ==
    { NoItem, Corrupt, Item(<< >>),
      Item(<<[id |-> 1, title |-> NewTitle, createdAt |-> 1,
              messages |-> <<Welcome>>]>>),
      Item(<<[id |-> 2, title |-> NewTitle, createdAt |-> 2,
              messages |-> <<Welcome>>]>>
           \o <<[id |-> 1, title |-> NewTitle, createdAt |-> 1,
                 messages |-> <<Welcome>>]>>) }

\* the instant of the first event after the sessions of StoredUniverse
FirstInstant == 3

\* saveSessions: setSessions(newSessions) and
\* localStorage.setItem('chatSessions', JSON.stringify(newSessions))
saveSessions(c, newSessions) ==
    [c EXCEPT !.sessions = newSessions, !.stored = Item(newSessions)]

\* createNewSession, called with the sessions of the render that made it:
\* the new session is put before them and becomes the current one
createNewSession(c, sessions) ==
    LET newSession == NewSession(c.now)
    IN  [saveSessions(c, <<newSession>> \o sessions)
            EXCEPT !.currentSessionId = newSession.id]

\* sessions.filter(s => s.id !== sessionId)
RECURSIVE filter(_, _)
filter(sessions, sessionId) ==
    IF sessions = << >> THEN << >>
    ELSE IF Head(sessions).id = sessionId
    THEN filter(Tail(sessions), sessionId)
    ELSE <<Head(sessions)>> \o filter(Tail(sessions), sessionId)

\* deleteSession: when the session deleted is the current one and no other
\* is left, createNewSession is called, which reads sessions, the list of
\* the render, and the function returns before saveSessions(newSessions)
deleteSession(c, sessionId) ==
    LET newSessions == filter(c.sessions, sessionId)
    IN  IF sessionId = c.currentSessionId
        THEN IF newSessions # << >>
             THEN saveSessions([c EXCEPT !.currentSessionId =
                                             newSessions[1].id],
                               newSessions)
             ELSE createNewSession(c, c.sessions)
        ELSE saveSessions(c, newSessions)

\* updateSession: the session of that id gets the messages and its title
updateSession(c, sessionId, messages) ==
    saveSessions(c,
        [i \in DOMAIN c.sessions |->
            IF c.sessions[i].id = sessionId
            THEN [c.sessions[i] EXCEPT !.title = titleOf(c.sessions[i], messages),
                                       !.messages = messages]
            ELSE c.sessions[i]])

\* the event is over: the component renders again before the next event,
\* and the clock has advanced
After(c, op, sessionId) ==
    [c EXCEPT !.now = @ + 1, !.last = [op |-> op, id |-> sessionId]]

InitChat ==
    /\ fundCode = "000001"
    /\ fundName = "Fund"
    /\ lastNav = NaN
    /\ holdings = << >>
    /\ quotes = << >>
    /\ clock = 0
    /\ calls = << >>
    /\ NoCallUnderWay
    /\ reports = << >>
    /\ badge = NoBadge
    /\ fetcher = FetcherAtRest
    /\ relay = RelayAtRest
    /\ \E stored \in StoredUniverse : chat = [ChatAtRest EXCEPT !.stored = stored]

\* the effect of the first render: the sessions are read from localStorage
Mount ==
    /\ ~chat.mounted
    /\ chat' = IF chat.stored.item = "json"
               THEN [chat EXCEPT !.mounted = TRUE,
                                 !.sessions = chat.stored.sessions,
                                 !.currentSessionId =
                                     IF chat.stored.sessions # << >>
                                     THEN chat.stored.sessions[1].id ELSE @]
               ELSE [chat EXCEPT !.mounted = TRUE]
    /\ UNCHANGED <<estimatorVars, fetcher, relay>>

\* the ids an event may name: those of the sessions and one of no session
IdsAtHand == { chat.sessions[i].id : i \in DOMAIN chat.sessions } \cup {0}

CreateNewSession ==
    /\ chat.mounted
    /\ chat.now < FirstInstant + MaxChatEvents
    /\ chat' = After(createNewSession(chat, chat.sessions), "create", chat.now)
    /\ UNCHANGED <<estimatorVars, fetcher, relay>>

UpdateSession ==
    /\ chat.mounted
    /\ chat.now < FirstInstant + MaxChatEvents
    /\ \E sessionId \in IdsAtHand, messages \in MessagesUniverse :
           chat' = After(updateSession(chat, sessionId, messages),
                         "update", sessionId)
    /\ UNCHANGED <<estimatorVars, fetcher, relay>>

DeleteSession ==
    /\ chat.mounted
    /\ chat.now < FirstInstant + MaxChatEvents
    /\ \E sessionId \in IdsAtHand :
           chat' = After(deleteSession(chat, sessionId), "delete", sessionId)
    /\ UNCHANGED <<estimatorVars, fetcher, relay>>

\* the panel selects a session: setCurrentSessionId
SetCurrentSessionId ==
    /\ chat.mounted
    /\ chat.now < FirstInstant + MaxChatEvents
    /\ \E sessionId \in IdsAtHand :
           /\ sessionId # 0
           /\ chat' = After([chat EXCEPT !.currentSessionId = sessionId],
                            "select", sessionId)
    /\ UNCHANGED <<estimatorVars, fetcher, relay>>

NextChat ==
    \/ Mount
    \/ CreateNewSession
    \/ UpdateSession
    \/ DeleteSession
    \/ SetCurrentSessionId

SpecChat == InitChat /\ [][NextChat]_vars

(* ------------------------ the agent chat relay ------------------------ *)

\* the lines a chunk of the upstream stream may hold: a delta with content,
\* a delta without content, the end marker, a data line that is not JSON,
\* and a line that does not start with 'data: '
LineUniverse == { "content", "empty", "[DONE]", "garbage", "comment" }

\* line.startsWith('data: ')
startsWithData(line) == line # "comment"

\* the chunks reader.read() may deliver: chunk.split('\n') of each
ChunkUniverse ==
    { <<"content">>, <<"empty">>, <<"[DONE]">>, <<"garbage">>, <<"comment">>,
      <<"content", "[DONE]">>, <<"[DONE]", "content">>,
      <<"content", "content">> }

\* a tool call of the assistant message: whether the switch knows its name
\* and whether JSON.parse accepts its arguments
ToolCall(known, parses) == [known |-> known, parses |-> parses]

\* the answers of the upstream to the first request: a status that is not
\* ok, a body that is not JSON, a message without tool calls, and messages
\* with one or two tool calls
Answer(status, json, tool_calls) ==
    [status |-> status, json |-> json, tool_calls |-> tool_calls]

AnswerUniverse ==
    { Answer(503, TRUE, << >>),
      Answer(200, FALSE, << >>),
      Answer(200, TRUE, << >>),
      Answer(200, TRUE, <<ToolCall(TRUE, TRUE)>>),
      Answer(200, TRUE, <<ToolCall(TRUE, FALSE)>>),
      Answer(200, TRUE, <<ToolCall(FALSE, TRUE), ToolCall(TRUE, TRUE)>>) }

\* controller.enqueue(encoder.encode(JSON.stringify({type}) + '\n'))
enqueue(r, type) == [r EXCEPT !.events = Append(@, type)]

\* controller.close()
close(r) == [r EXCEPT !.closes = @ + 1, !.pc = "closed"]

\* the catch block of start: the error event, then the stream is closed
catchOfStart(r) == close(enqueue(r, "error"))

\* the for loop over the lines of a chunk: the end marker sends 'done' and
\* leaves the for loop, a delta with content sends 'content', a line that
\* does not parse is passed over
RECURSIVE forLines(_, _)
forLines(r, lines) ==
    IF lines = << >> THEN r
    ELSE IF ~startsWithData(Head(lines)) THEN forLines(r, Tail(lines))
    ELSE IF Head(lines) = "[DONE]" THEN enqueue(r, "done")
    ELSE IF Head(lines) = "content"
    THEN forLines(enqueue(r, "content"), Tail(lines))
    ELSE forLines(r, Tail(lines))

\* one turn of while (true) after reader.read() has delivered a chunk: the
\* break at the end marker leaves the for loop only, and the next
\* reader.read() is awaited
afterChunk(r, lines) == [forLines(r, lines) EXCEPT !.chunks = @ + 1]

\* the tool calls from the first that is left: arguments that do not parse
\* throw, a name the switch does not know gives its result at once, a
\* known tool is awaited; after the last the streamed request is sent
RECURSIVE forToolCalls(_)
forToolCalls(r) ==
    IF r.tools = << >> THEN [r EXCEPT !.pc = "awaitStream"]
    ELSE IF ~Head(r.tools).parses THEN catchOfStart(r)
    ELSE IF ~Head(r.tools).known
    THEN forToolCalls([enqueue(enqueue(r, "tool_start"), "tool_result")
                          EXCEPT !.tools = Tail(@)])
    ELSE [enqueue(r, "tool_start") EXCEPT !.pc = "awaitTool"]

\* the code after the first fetch has resolved
afterAnswer(r, answer) ==
    IF ~ok(answer.status) \/ ~answer.json THEN catchOfStart(r)
    ELSE IF answer.tool_calls # << >>
    THEN forToolCalls([enqueue(r, "tool_calls")
                          EXCEPT !.tools = answer.tool_calls])
    ELSE [r EXCEPT !.pc = "awaitStream"]

InitRelay ==
    /\ fundCode = "000001"
    /\ fundName = "Fund"
    /\ lastNav = NaN
    /\ holdings = << >>
    /\ quotes = << >>
    /\ clock = 0
    /\ calls = << >>
    /\ NoCallUnderWay
    /\ reports = << >>
    /\ badge = NoBadge
    /\ ServicesAtRest

\* POST: the stream is made, start sends 'start' and awaits the first fetch
Post ==
    /\ relay.pc = "idle"
    /\ relay' = [enqueue(relay, "start") EXCEPT !.pc = "awaitAnswer"]
    /\ UNCHANGED <<estimatorVars, fetcher, chat>>

\* the upstream answers the first request
AnswerArrives ==
    /\ relay.pc = "awaitAnswer"
    /\ \E answer \in AnswerUniverse : relay' = afterAnswer(relay, answer)
    /\ UNCHANGED <<estimatorVars, fetcher, chat>>

\* a tool returns: its result is sent and the next tool call is taken up
ToolReturns ==
    /\ relay.pc = "awaitTool"
    /\ relay' = forToolCalls([enqueue(relay, "tool_result")
                                 EXCEPT !.tools = Tail(@)])
    /\ UNCHANGED <<estimatorVars, fetcher, chat>>

\* a tool throws
ToolThrows ==
    /\ relay.pc = "awaitTool"
    /\ relay' = catchOfStart(relay)
    /\ UNCHANGED <<estimatorVars, fetcher, chat>>

\* the upstream answers the streamed request: a status that is not ok
\* throws, otherwise the first reader.read() is awaited
StreamOpens ==
    /\ relay.pc = "awaitStream"
    /\ \E status \in StatusUniverse :
           relay' = IF ok(status) THEN [relay EXCEPT !.pc = "reading"]
                    ELSE catchOfStart(relay)
    /\ UNCHANGED <<estimatorVars, fetcher, chat>>

\* reader.read() delivers a chunk
ChunkArrives ==
    /\ relay.pc = "reading"
    /\ relay.chunks < MaxChunks
    /\ \E lines \in ChunkUniverse : relay' = afterChunk(relay, lines)
    /\ UNCHANGED <<estimatorVars, fetcher, chat>>

\* reader.read() delivers done: the while loop is left and the stream is
\* closed
UpstreamEnds ==
    /\ relay.pc = "reading"
    /\ relay' = close(relay)
    /\ UNCHANGED <<estimatorVars, fetcher, chat>>

\* a fetch or reader.read() rejects: the connection has failed
ConnectionFails ==
    /\ relay.pc \in { "awaitAnswer", "awaitStream", "reading" }
    /\ relay' = catchOfStart(relay)
    /\ UNCHANGED <<estimatorVars, fetcher, chat>>

NextRelay ==
    \/ Post
    \/ AnswerArrives
    \/ ToolReturns
    \/ ToolThrows
    \/ StreamOpens
    \/ ChunkArrives
    \/ UpstreamEnds
    \/ ConnectionFails

SpecRelay == InitRelay /\ [][NextRelay]_vars

(* ------------------------- reading the calls -------------------------- *)

\* the calls made so far, each with its arguments and what it returned
Returned == { calls[i] : i \in DOMAIN calls }

\* the calls that have just returned: every call is the last of the calls
\* made in the state it returns to
JustReturned == IF calls = << >> THEN {} ELSE { calls[Len(calls)] }

QuotedCodes(qs) == { qs[i].code : i \in DOMAIN qs }

\* the positions in the holdings argument whose stockCode has a quote
MatchedAt(hs, qs) == { i \in DOMAIN hs : hs[i].stockCode \in QuotedCodes(qs) }

\* the entry of qs for code that stands last in the list
LastQuote(qs, code) ==
    qs[CHOOSE i \in DOMAIN qs :
          /\ qs[i].code = code
          /\ \A j \in DOMAIN qs : qs[j].code = code => j <= i]

RECURSIVE SumOver(_, _)
SumOver(f, S) ==
    IF S = {} THEN 0
    ELSE LET x == CHOOSE y \in S : TRUE IN f[x] + SumOver(f, S \ {x})

\* the sum of ratio over the holdings that have a quote, 1e-3 percent
MatchedRatio(hs, qs) ==
    SumOver([i \in MatchedAt(hs, qs) |-> hs[i].ratio], MatchedAt(hs, qs))

\* the sum of ratio over all holdings, 1e-3 percent
WholeRatio(hs) == SumOver([i \in DOMAIN hs |-> hs[i].ratio], DOMAIN hs)

\* the sum of (ratio / 100) * changePercent over the holdings that have a
\* quote, 1e-8 percent
MatchedChange(hs, qs) ==
    SumOver([i \in MatchedAt(hs, qs) |->
                hs[i].ratio * LastQuote(qs, hs[i].stockCode).changePercent],
            MatchedAt(hs, qs))

\* one unit of the last digit each output keeps
PercentStep == ContribScale \div Pow10(PercentDigits)
RatioStep == RatioScale \div Pow10(PercentDigits)
NavStep == NavScale \div Pow10(NavDigits)

\* x is a multiple of step and as near to the exact value as such a
\* multiple can be
RoundingOf(x, exact, step) == x % step = 0 /\ 2 * Abs(x - exact) <= step

(* ------------------------------- claims ------------------------------- *)

\* C1: the estimatedChangePercent a call returns is, up to its rounding to
\* 2 decimals, the sum over the holdings whose stockCode has a quote of
\* (ratio / 100) * changePercent of that quote.
C1_ChangePercentIsMatchedSum ==
    \A c \in Returned :
        RoundingOf(c.result.estimatedChangePercent,
                   MatchedChange(c.holdings, c.quotes), PercentStep)

\* C1 witness: ratios 60 and 40 with quote changes +2.00 and -1.00 have
\* returned 0.80.
C1_Witness ==
    \E c \in Returned :
        /\ Len(c.holdings) = 2
        /\ c.holdings[1].ratio = 60 * RatioScale
        /\ c.holdings[2].ratio = 40 * RatioScale
        /\ MatchedAt(c.holdings, c.quotes) = {1, 2}
        /\ LastQuote(c.quotes, c.holdings[1].stockCode).changePercent = 2 * PctScale
        /\ LastQuote(c.quotes, c.holdings[2].stockCode).changePercent = -PctScale
        /\ c.result.estimatedChangePercent = 8 * (ContribScale \div 10)

\* C2 as stated: the returned estimatedNav is the returned lastNav plus the
\* returned estimatedChange (stated for the calls with a finite lastNav).
C2_NavIsLastNavPlusChange ==
    \A c \in Returned :
        ~IsNaN(c.lastNav) =>
            c.result.estimatedNav = c.result.lastNav + c.result.estimatedChange

\* C2 amended: estimatedNav and estimatedChange are rounded to 4 decimals
\* separately, so the returned estimatedNav is within 0.0001 of the returned
\* lastNav plus the returned estimatedChange; with lastNav NaN both are NaN.
C2_NavNearLastNavPlusChange ==
    \A c \in Returned :
        IF IsNaN(c.lastNav)
        THEN IsNaN(c.result.estimatedNav) /\ IsNaN(c.result.estimatedChange)
        ELSE /\ c.result.lastNav = c.lastNav
             /\ Abs(c.result.estimatedNav
                    - (c.result.lastNav + c.result.estimatedChange)) <= NavStep

\* C2 witness: a call with a change has returned an estimatedNav that is
\* not the sum of the two returned fields.
C2_Witness ==
    \E c \in Returned :
        /\ ~IsNaN(c.lastNav)
        /\ c.result.estimatedChange # 0
        /\ c.result.estimatedNav # c.result.lastNav + c.result.estimatedChange

\* C3 as stated: the returned estimatedChange is lastNav times the returned
\* estimatedChangePercent / 100, rounded to 4 decimals (stated for the calls
\* with a finite lastNav).
C3_ChangeFromReturnedPercent ==
    \A c \in Returned :
        ~IsNaN(c.lastNav) =>
            c.result.estimatedChange =
                WideToFixed(WideMul(c.lastNav, c.result.estimatedChangePercent),
                            NavDigits)

\* the exact lastNav * percent / 100 lies within half a unit of the 4th
\* decimal of x, which has 4 decimals
RoundingOfProduct(x, nav, percent) ==
    LET exact == WideMul(nav, percent)
        diff == Wide(exact.int - x, exact.frac, exact.sub)
        dist == IF diff.int < 0 THEN WideNeg(diff) ELSE diff
    IN  /\ x % NavStep = 0
        /\ \/ 2 * dist.int < NavStep
           \/ 2 * dist.int = NavStep /\ WideIsWhole(dist)

\* C3 amended: the returned estimatedChange is lastNav times the unrounded
\* weighted change percent / 100, rounded to 4 decimals; the returned
\* estimatedChangePercent is that percent rounded to 2 decimals; with lastNav
\* NaN the estimatedChange is NaN.
C3_ChangeFromUnroundedPercent ==
    \A c \in Returned :
        IF IsNaN(c.lastNav)
        THEN IsNaN(c.result.estimatedChange)
        ELSE RoundingOfProduct(c.result.estimatedChange, c.lastNav,
                               MatchedChange(c.holdings, c.quotes))

\* C3 witness: a call whose weighted change percent has more than 2
\* decimals has returned a change other than the one the returned percent
\* gives.
C3_Witness ==
    \E c \in Returned :
        /\ ~IsNaN(c.lastNav)
        /\ c.result.estimatedChangePercent # MatchedChange(c.holdings, c.quotes)
        /\ c.result.estimatedChange #
               WideToFixed(WideMul(c.lastNav, c.result.estimatedChangePercent),
                           NavDigits)

\* C4 as stated: totalRatio and coverage are equal and equal the sum of
\* ratio over the holdings that have a quote.
C4_TotalRatioIsMatchedSum ==
    \A c \in Returned :
        /\ c.result.dataQuality.totalRatio = c.result.dataQuality.coverage
        /\ c.result.dataQuality.totalRatio = MatchedRatio(c.holdings, c.quotes)

\* C4 amended: totalRatio and coverage are equal and are the sum of ratio
\* over only the holdings that have a quote, rounded to 2 decimals; when
\* every holding has a quote they are within 0.01 of the sum of all ratios.
C4_TotalRatioIsRoundedMatchedSum ==
    \A c \in Returned :
        /\ c.result.dataQuality.totalRatio = c.result.dataQuality.coverage
        /\ RoundingOf(c.result.dataQuality.totalRatio,
                      MatchedRatio(c.holdings, c.quotes), RatioStep)
        /\ MatchedAt(c.holdings, c.quotes) = DOMAIN c.holdings =>
               Abs(c.result.dataQuality.coverage - WholeRatio(c.holdings))
                   <= RatioStep

\* C4 witness: a call with a quoted holding whose ratio has 3 decimals and
\* a holding without a quote.
C4_Witness ==
    \E c \in Returned :
        /\ MatchedAt(c.holdings, c.quotes) # DOMAIN c.holdings
        /\ MatchedRatio(c.holdings, c.quotes) % RatioStep # 0
        /\ c.result.dataQuality.totalRatio # MatchedRatio(c.holdings, c.quotes)
        /\ c.result.dataQuality.totalRatio # WholeRatio(c.holdings)

PricedOnly(hs, qs) == SelectSeq(hs, LAMBDA h : h.stockCode \in QuotedCodes(qs))

\* C6 as stated: when no holding has a quote the call returns, with
\* estimatedChangePercent 0, estimatedChange 0, estimatedNav = lastNav,
\* coverage 0 and isReliable false (stated for the calls with a finite
\* lastNav).
C6_NoMatchGivesLastNav ==
    \A c \in Returned :
        MatchedAt(c.holdings, c.quotes) = {} /\ ~IsNaN(c.lastNav) =>
            /\ c.outcome = "returned"
            /\ c.result.estimatedChangePercent = 0
            /\ c.result.estimatedChange = 0
            /\ c.result.estimatedNav = c.lastNav
            /\ c.result.dataQuality.coverage = 0
            /\ ~c.result.dataQuality.isReliable

\* C6 amended: when no holding has a quote the call returns, with
\* estimatedChangePercent 0, coverage 0, isReliable false, estimatedChange 0
\* and estimatedNav = lastNav rounded to 4 decimals, which is lastNav when
\* lastNav has no more than 4 decimals; with lastNav NaN, estimatedChange and
\* estimatedNav are NaN.
C6_NoMatchGivesRoundedLastNav ==
    \A c \in Returned :
        MatchedAt(c.holdings, c.quotes) = {} =>
            /\ c.outcome = "returned"
            /\ c.result.estimatedChangePercent = 0
            /\ c.result.dataQuality.totalRatio = 0
            /\ c.result.dataQuality.coverage = 0
            /\ ~c.result.dataQuality.isReliable
            /\ IF IsNaN(c.lastNav)
               THEN IsNaN(c.result.estimatedChange) /\ IsNaN(c.result.estimatedNav)
               ELSE /\ c.result.estimatedChange = 0
                    /\ RoundingOf(c.result.estimatedNav, c.lastNav, NavStep)
                    /\ c.lastNav % NavStep = 0 => c.result.estimatedNav = c.lastNav

\* C6 witness: holdings and quotes are both there, no stockCode equals a
\* quote's code, and lastNav has 5 decimals.
C6_Witness ==
    \E c \in Returned :
        /\ c.holdings # << >>
        /\ c.quotes # << >>
        /\ MatchedAt(c.holdings, c.quotes) = {}
        /\ ~IsNaN(c.lastNav)
        /\ c.lastNav % NavStep # 0
        /\ c.result.estimatedNav # c.lastNav

\* C7: every holding whose stockCode has no quote has its row in the
\* returned holdings, with currentPrice 0, changePercent 0 and contribution
\* 0, and adds nothing: the call returns the totalRatio, coverage,
\* isReliable, estimatedChangePercent, estimatedChange and estimatedNav it
\* returns for the holdings that have a quote alone.
C7_UnpricedHoldingsAddNothing ==
    \A c \in Returned :
        /\ \A i \in DOMAIN c.holdings \ MatchedAt(c.holdings, c.quotes) :
               LET code == c.holdings[i].stockCode
                   rows == { k \in DOMAIN c.result.holdings :
                                 c.result.holdings[k].code = code }
               IN  /\ Cardinality(rows) =
                          Cardinality({ k \in DOMAIN c.holdings :
                                            c.holdings[k].stockCode = code })
                   /\ \A k \in rows :
                          /\ c.result.holdings[k].currentPrice = 0
                          /\ c.result.holdings[k].changePercent = 0
                          /\ c.result.holdings[k].contribution = 0
        /\ LET alone == calculateEstimatedNav(c.result.fundCode,
                            c.result.fundName, c.lastNav,
                            PricedOnly(c.holdings, c.quotes), c.quotes,
                            c.result.calculationTime)
           IN  /\ alone.dataQuality = c.result.dataQuality
               /\ alone.estimatedChangePercent = c.result.estimatedChangePercent
               /\ alone.estimatedChange = c.result.estimatedChange
               /\ alone.estimatedNav = c.result.estimatedNav

\* C7 witness: a call with a holding that has a quote and moves, and a
\* holding that has none.
C7_Witness ==
    \E c \in Returned :
        /\ MatchedAt(c.holdings, c.quotes) # {}
        /\ MatchedAt(c.holdings, c.quotes) # DOMAIN c.holdings
        /\ c.result.estimatedChangePercent # 0
        /\ \E k \in DOMAIN c.result.holdings :
               /\ c.result.holdings[k].code \notin QuotedCodes(c.quotes)
               /\ c.result.holdings[k].ratio > 0
               /\ c.result.holdings[k].contribution = 0

\* C8: a call with a lastNav that is not finite fails with InvalidInput and
\* returns no result.
C8_NonFiniteLastNavIsRejected ==
    \A c \in Returned : IsNaN(c.lastNav) => c.outcome = "InvalidInput"

\* C9: the returned holdings are in non-increasing order of contribution.
C9_SortedByContribution ==
    \A c \in Returned :
        \A k \in 1..(Len(c.result.holdings) - 1) :
            c.result.holdings[k].contribution
                >= c.result.holdings[k + 1].contribution

\* C9 witness: three rows of different contributions have been returned in
\* another order than that of the holdings they come from.
C9_Witness ==
    \E c \in Returned :
        /\ Len(c.result.holdings) = 3
        /\ c.result.holdings[1].contribution > c.result.holdings[2].contribution
        /\ c.result.holdings[2].contribution > c.result.holdings[3].contribution
        /\ c.result.holdings[1].code = c.holdings[3].stockCode
        /\ c.result.holdings[3].code = c.holdings[1].stockCode

SameArguments(c, d) ==
    /\ c.lastNav = d.lastNav
    /\ c.holdings = d.holdings
    /\ c.quotes = d.quotes
    /\ c.result.fundCode = d.result.fundCode
    /\ c.result.fundName = d.result.fundName

RoundingOfWide(x, exact) ==
    LET diff == Wide(exact.int - x, exact.frac, exact.sub)
        dist == IF diff.int < 0 THEN WideNeg(diff) ELSE diff
    IN  /\ x % NavStep = 0
        /\ \/ 2 * dist.int < NavStep
           \/ 2 * dist.int = NavStep /\ WideIsWhole(dist)

\* estimatedChange and estimatedNav of a call are each the one rounding to
\* 4 decimals of the exact lastNav * W / 100 and lastNav * (1 + W / 100),
\* W being the unrounded weighted change percent; both NaN for a NaN lastNav
RoundedOnce(c) ==
    LET W == MatchedChange(c.holdings, c.quotes)
        p == WideMul(c.lastNav, W)
    IN  IF IsNaN(c.lastNav)
        THEN IsNaN(c.result.estimatedChange) /\ IsNaN(c.result.estimatedNav)
        ELSE /\ RoundingOfWide(c.result.estimatedChange, p)
             /\ RoundingOfWide(c.result.estimatedNav,
                               Wide(p.int + c.lastNav, p.frac, p.sub))

\* the call has one holding, of ratio 100, and a quote for it
WholeFundInOneStock(c) ==
    /\ Len(c.holdings) = 1
    /\ c.holdings[1].ratio = 100 * RatioScale
    /\ MatchedAt(c.holdings, c.quotes) = {1}

\* the change c of the quote used for the one holding, in units of
\* estimatedChangePercent
QuoteChangeOf(c) ==
    LastQuote(c.quotes, c.holdings[1].stockCode).changePercent
        * (ContribScale \div PctScale)

\* C11: with W the unrounded weighted change percent, estimatedChange is
\* lastNav * W / 100 rounded once to 4 decimals and estimatedNav is
\* lastNav * (1 + W / 100) rounded once to 4 decimals; one holding of ratio
\* 100 with a quote of change c gives estimatedChangePercent = c.
C11_RoundedOnceAndPercentIsQuoteChange ==
    \A c \in Returned :
        /\ RoundedOnce(c)
        /\ WholeFundInOneStock(c) =>
               c.result.estimatedChangePercent = QuoteChangeOf(c)

\* C11 amended: estimatedChange and estimatedNav are as stated; one holding
\* of ratio 100 with a quote of change c gives estimatedChangePercent = c
\* rounded to 2 decimals, which is c only when c has no more decimals.
C11_RoundedOnceAndPercentIsRoundedQuoteChange ==
    \A c \in Returned :
        /\ RoundedOnce(c)
        /\ WholeFundInOneStock(c) =>
               RoundingOf(c.result.estimatedChangePercent, QuoteChangeOf(c),
                          PercentStep)

\* C11 witness: one holding of ratio 100 and a quote of +2.013 on a lastNav
\* of 5 decimals have returned +2.01 and an estimatedNav above lastNav.
C11_Witness ==
    \E c \in Returned :
        /\ WholeFundInOneStock(c)
        /\ ~IsNaN(c.lastNav)
        /\ c.lastNav % NavStep # 0
        /\ QuoteChangeOf(c) = 2013 * (ContribScale \div PctScale)
        /\ c.result.estimatedChangePercent = 201 * (ContribScale \div 100)
        /\ c.result.estimatedNav > c.lastNav


\* the positions of qs that no later entry of the same code follows
LastAt(qs) ==
    { i \in DOMAIN qs : \A j \in DOMAIN qs : qs[j].code = qs[i].code => j <= i }

RECURSIVE Keep(_, _)
\* the entries of qs at the positions in S, in list order
Keep(qs, S) ==
    IF qs = << >> THEN << >>
    ELSE LET n == Len(qs)
             front == Keep(SubSeq(qs, 1, n - 1), S)
         IN  IF n \in S THEN Append(front, qs[n]) ELSE front

\* the codes that have more than one entry in qs
DuplicatedCodes(qs) ==
    { qs[i].code : i \in DOMAIN qs \ LastAt(qs) }

\* C12: when quotes has several entries of one code, every row of a holding
\* in that stock carries the price and changePercent of the last of them and
\* the contribution (ratio / 100) * that changePercent, and the call returns
\* what it returns with the earlier entries left out of quotes.
C12_LastDuplicateQuoteWins ==
    \A c \in JustReturned :
        /\ \A k \in DOMAIN c.result.holdings :
               LET row == c.result.holdings[k]
               IN  row.code \in DuplicatedCodes(c.quotes) =>
                       LET last == LastQuote(c.quotes, row.code)
                       IN  /\ row.currentPrice = last.price
                           /\ row.changePercent = last.changePercent
                           /\ row.contribution = row.ratio * last.changePercent
        /\ c.result = calculateEstimatedNav(c.result.fundCode,
                          c.result.fundName, c.lastNav, c.holdings,
                          Keep(c.quotes, LastAt(c.quotes)),
                          c.result.calculationTime)

\* C12 witness: a call with two quotes of one code that differ in price and
\* changePercent and a holding in that stock has returned the row of the
\* second quote.
C12_Witness ==
    \E c \in Returned :
        /\ Len(c.quotes) = 2
        /\ c.quotes[1].code = c.quotes[2].code
        /\ c.quotes[1].price # c.quotes[2].price
        /\ c.quotes[1].changePercent > c.quotes[2].changePercent
        /\ \E k \in DOMAIN c.result.holdings :
               /\ c.result.holdings[k].code = c.quotes[2].code
               /\ c.result.holdings[k].ratio > 0
               /\ c.result.holdings[k].currentPrice = c.quotes[2].price
               /\ c.result.holdings[k].changePercent = c.quotes[2].changePercent


\* the row a matched holding is to have when nothing is changed on the way:
\* its own ratio, the quote's price and changePercent, and
\* (ratio / 100) * changePercent
RowAsGiven(h, q) ==
    [code |-> h.stockCode, name |-> h.stockName, ratio |-> h.ratio,
     currentPrice |-> q.price, changePercent |-> q.changePercent,
     contribution |-> h.ratio * q.changePercent]

\* C15: a matched holding is used as given whatever its ratio, negative,
\* zero or above 100: the result has its row with the input ratio and the
\* contribution (ratio / 100) * changePercent, as many times as the input
\* has the holding, and totalRatio and coverage are the sum of the input
\* ratios of the matched holdings, rounded to 2 decimals, be it negative or
\* above 100.
C15_RatioUsedUnmodified ==
    \A c \in Returned :
        LET at == MatchedAt(c.holdings, c.quotes)
            given(i) == RowAsGiven(c.holdings[i],
                            LastQuote(c.quotes, c.holdings[i].stockCode))
        IN  /\ \A i \in at :
                   Cardinality({ k \in DOMAIN c.result.holdings :
                                     c.result.holdings[k] = given(i) })
                       = Cardinality({ j \in at : given(j) = given(i) })
            /\ RoundingOf(c.result.dataQuality.totalRatio,
                          MatchedRatio(c.holdings, c.quotes), RatioStep)
            /\ c.result.dataQuality.coverage = c.result.dataQuality.totalRatio

\* C15 witness: with a holding of ratio 150 and one of ratio -5, a call
\* with only the second quoted has returned a negative coverage and a call
\* with both quoted a coverage above 100, each with the rows as given.
C15_Witness ==
    \E c, d \in Returned :
        /\ c.result.dataQuality.coverage < 0
        /\ \E k \in DOMAIN c.result.holdings :
               /\ c.result.holdings[k].ratio < 0
               /\ c.result.holdings[k].contribution > 0
        /\ d.result.dataQuality.coverage > 100 * RatioScale
        /\ \E k \in DOMAIN d.result.holdings :
               /\ d.result.holdings[k].ratio > 100 * RatioScale
               /\ d.result.holdings[k].contribution
                      > 100 * RatioScale * d.result.holdings[k].changePercent


\* C14: a call of calculateEstimatedNav leaves the caller's holdings and
\* quotes as they were: the same elements in the same order with the same
\* field values.
C14_InputsUnchanged ==
    [][Len(calls') > Len(calls) => holdings' = holdings /\ quotes' = quotes]_vars

\* C14 witness: a call has returned rows in another order than that of the
\* holdings it was given (the sort has moved a row), and the caller's
\* holdings and quotes are still those the call was given.
C14_Witness ==
    \E n \in DOMAIN calls :
        LET c == calls[n]
        IN  /\ n = Len(calls)
            /\ Len(c.holdings) >= 2
            /\ c.quotes # << >>
            /\ \E k \in DOMAIN c.holdings :
                   c.result.holdings[k].code # c.holdings[k].stockCode
            /\ holdings = c.holdings
            /\ quotes = c.quotes


\* C13: however the invocations of calculateEstimatedNav are interleaved,
\* each returns what it returns when it runs alone on its own arguments.
C13_InterleavedCallsReturnAsAlone ==
    \A c \in Returned :
        c.result = calculateEstimatedNav(c.result.fundCode, c.result.fundName,
                       c.lastNav, c.holdings, c.quotes,
                       c.result.calculationTime)

\* C13 witness: two calls have returned, and the one that returned first was
\* given a quote that arrived after the other had begun: the two ran side
\* by side on different arguments, each through a loop of two holdings or
\* more with a holding that has a quote.
C13_Witness ==
    /\ Len(calls) = 2
    /\ Len(calls[1].quotes) > Len(calls[2].quotes)
    /\ Len(calls[1].holdings) >= 2
    /\ calls[2].quotes # << >>
    /\ calls[1].result.estimatedChangePercent
           # calls[2].result.estimatedChangePercent
    /\ calls[2].result.estimatedChangePercent # 0


(* ----------------------------- the reports ---------------------------- *)

Reports == { reports[i] : i \in DOMAIN reports }

IsRowLine(line) == line.kind = "row"

\* the table lines of a report, in their order
DataRows(text) == SelectSeq(text, IsRowLine)

\* the lines of one kind
LinesOf(text, kind) == { i \in DOMAIN text : text[i].kind = kind }

\* the number a text stands for, in units of 1/scale
ValueOf(t, scale) ==
    IF t.nan THEN NaN
    ELSE (IF t.minus THEN -1 ELSE 1) * t.count * (scale \div Pow10(t.digits))

\* the text t is x written with the given digits: NaN for NaN, else the
\* sign of x and the multiple of 10^-digits nearest to it
Shows(t, x, scale, digits) ==
    /\ t.digits = digits
    /\ t.nan = IsNaN(x)
    /\ ~IsNaN(x) =>
           /\ t.minus = (x < 0)
           /\ 2 * Abs(t.count * (scale \div Pow10(digits)) - Abs(x))
                  <= scale \div Pow10(digits)

\* the table line shows the detail row h
ShowsRow(line, h) ==
    /\ line.code = h.code
    /\ line.name = h.name
    /\ Shows(line.ratio, h.ratio, RatioScale, 2)
    /\ Shows(line.currentPrice, h.currentPrice, PriceScale, 2)
    /\ Shows(line.changePercent, h.changePercent, PctScale, 2)
    /\ Shows(line.contribution, h.contribution, ContribScale, 3)

\* C16: the table of a report has min(10, n) data rows for a result of n
\* holdings, and they show the first min(10, n) entries of result.holdings
\* in their order.
C16_TableShowsFirstTenRows ==
    \A p \in Reports :
        LET rows == DataRows(p.text)
            n == Len(p.result.holdings)
        IN  /\ Len(rows) = IF n < 10 THEN n ELSE 10
            /\ \A i \in DOMAIN rows : ShowsRow(rows[i], p.result.holdings[i])

\* C16 witness: a result of more than 10 holdings, sorted with a row of
\* positive contribution first and one of negative contribution last, is
\* reported with 10 data rows, the tenth showing the tenth holding and not
\* the last.
C16_Witness ==
    \E p \in Reports :
        LET n == Len(p.result.holdings)
        IN  /\ n > 10
            /\ Len(DataRows(p.text)) = 10
            /\ p.result.holdings[1].contribution > 0
            /\ p.result.holdings[n].contribution < 0
            /\ p.result.holdings[n].ratio # p.result.holdings[10].ratio
            /\ ValueOf(DataRows(p.text)[10].ratio, RatioScale)
                   = p.result.holdings[10].ratio

\* the sign before the text t of x is '+' exactly when x >= 0, and a
\* negative x is written with its own '-' and no '+'
SignedAsStated(sign, t, x) ==
    /\ sign \in {"+", ""}
    /\ sign = "+" <=> (~IsNaN(x) /\ x >= 0)
    /\ (~IsNaN(x) /\ x < 0) => (t.minus /\ sign = "")

\* C17: in a report estimatedChange, estimatedChangePercent and each row's
\* changePercent and contribution have '+' before them exactly when the
\* value is >= 0, zero included; a negative value has its own '-' and no '+'.
C17_PlusIffNotNegative ==
    \A p \in Reports :
        /\ \A i \in LinesOf(p.text, "estimatedChange") :
               /\ SignedAsStated(p.text[i].sign, p.text[i].value,
                                 p.result.estimatedChange)
               /\ SignedAsStated(p.text[i].percentSign, p.text[i].percent,
                                 p.result.estimatedChangePercent)
        /\ LinesOf(p.text, "estimatedChange") # {}
        /\ LET rows == DataRows(p.text)
           IN  \A i \in DOMAIN rows :
                   /\ i \in DOMAIN p.result.holdings
                   /\ SignedAsStated(rows[i].changeSign, rows[i].changePercent,
                                     p.result.holdings[i].changePercent)
                   /\ SignedAsStated(rows[i].sign, rows[i].contribution,
                                     p.result.holdings[i].contribution)

\* C17 witness: one report shows an estimatedChange of zero with '+', and
\* another a negative estimatedChange and a row of negative contribution
\* with '-' and no '+', beside a row of positive contribution with '+'.
C17_Witness ==
    \E p, q \in Reports :
        /\ p.result.estimatedChange = 0
        /\ \E i \in LinesOf(p.text, "estimatedChange") :
               p.text[i].sign = "+" /\ p.text[i].value.count = 0
        /\ q.result.estimatedChange < 0
        /\ \E i \in LinesOf(q.text, "estimatedChange") :
               /\ q.text[i].sign = ""
               /\ q.text[i].value.minus
               /\ q.text[i].percentSign = ""
        /\ \E i, j \in DOMAIN DataRows(q.text) :
               /\ q.result.holdings[i].contribution > 0
               /\ DataRows(q.text)[i].sign = "+"
               /\ q.result.holdings[j].contribution < 0
               /\ DataRows(q.text)[j].sign = ""
               /\ DataRows(q.text)[j].contribution.minus
               /\ DataRows(q.text)[j].changeSign = ""

\* the result a report was made of is still what the call returned
ResultsAsReturned ==
    \A i \in DOMAIN reports : calls[i].result = reports[i].result

\* the report shows the estimatedNav, estimatedChange, estimatedChangePercent,
\* coverage and isReliable that the result stores
ShowsStoredValues(p) ==
    /\ \A i \in LinesOf(p.text, "estimatedNav") :
           ValueOf(p.text[i].value, NavScale) = p.result.estimatedNav
    /\ \A i \in LinesOf(p.text, "estimatedChange") :
           /\ ValueOf(p.text[i].value, NavScale) = p.result.estimatedChange
           /\ ValueOf(p.text[i].percent, ContribScale)
                  = p.result.estimatedChangePercent
    /\ \A i \in LinesOf(p.text, "coverage") :
           ValueOf(p.text[i].value, RatioScale) = p.result.dataQuality.coverage
    /\ \A i \in LinesOf(p.text, "reliability") :
           p.text[i].label = "reliable" <=> p.result.dataQuality.isReliable
    /\ \A kind \in {"estimatedNav", "estimatedChange", "coverage",
                    "reliability"} : LinesOf(p.text, kind) # {}

\* C18: formatValuationResult leaves the result as it was, holdings and all,
\* and the estimatedNav, estimatedChange, coverage and reliability it shows
\* are those the result stores.
C18_ReportLeavesAndShowsResult ==
    /\ [][Len(reports') > Len(reports) => calls' = calls]_vars
    /\ [](ResultsAsReturned /\ \A p \in Reports : ShowsStoredValues(p))

\* C18 witness: a result that stores a coverage of 50.00 and isReliable
\* false, with rows in another order than the holdings had, has been
\* reported as 50.00 and not reliable, and is still what the call returned.
C18_Witness ==
    \E n \in DOMAIN reports :
        LET p == reports[n]
        IN  /\ p.result.dataQuality.coverage = 50 * RatioScale
            /\ ~p.result.dataQuality.isReliable
            /\ \E i \in LinesOf(p.text, "coverage") :
                   p.text[i].value.count = 5000
            /\ \E i \in LinesOf(p.text, "reliability") :
                   p.text[i].label = "data insufficient"
            /\ Len(p.result.holdings) >= 2
            /\ calls[n].result = p.result
            /\ ~IsNaN(p.result.estimatedNav)

\* C19: every report, also of a result with isReliable false or coverage 0,
\* has its estimatedNav line and its estimatedChange line, and one
\* reliability line, which says reliable exactly when the result's
\* isReliable is true and data insufficient otherwise.
C19_UnreliableEstimateShownAndLabelled ==
    \A p \in Reports :
        /\ Cardinality(LinesOf(p.text, "estimatedNav")) = 1
        /\ Cardinality(LinesOf(p.text, "estimatedChange")) = 1
        /\ Cardinality(LinesOf(p.text, "reliability")) = 1
        /\ \A i \in LinesOf(p.text, "estimatedNav") :
               Shows(p.text[i].value, p.result.estimatedNav, NavScale, 4)
        /\ \A i \in LinesOf(p.text, "estimatedChange") :
               Shows(p.text[i].value, p.result.estimatedChange, NavScale, 4)
        /\ \A i \in LinesOf(p.text, "reliability") :
               p.text[i].label =
                   IF p.result.dataQuality.isReliable THEN "reliable"
                   ELSE "data insufficient"

\* C19 witness: a result of coverage 0 and one of isReliable false with
\* quotes at hand are each reported with the estimate and as data
\* insufficient.
C19_Witness ==
    \E p, q \in Reports :
        /\ p.result.dataQuality.coverage = 0
        /\ ~p.result.dataQuality.isReliable
        /\ q.result.dataQuality.coverage > 0
        /\ ~q.result.dataQuality.isReliable
        /\ q.result.estimatedChange # 0
        /\ \A r \in {p, q} :
               /\ \E i \in LinesOf(r.text, "estimatedNav") :
                      ValueOf(r.text[i].value, NavScale) = r.result.estimatedNav
               /\ \E i \in LinesOf(r.text, "reliability") :
                      r.text[i].label = "data insufficient"


(* ---------------------------- the classifiers ------------------------- *)

\* the class a colour stands for, and the class an icon stands for
ClassOfColor(color) ==
    IF color = "text-red-500" THEN "positive"
    ELSE IF color = "text-green-500" THEN "negative"
    ELSE IF color = "text-gray-500" THEN "neutral"
    ELSE "none"

ClassOfIcon(icon) ==
    IF icon = "chart rising" THEN "positive"
    ELSE IF icon = "chart falling" THEN "negative"
    ELSE IF icon = "arrow right" THEN "neutral"
    ELSE "none"

\* C20: getValuationColor and getValuationIcon return for every number x,
\* each its positive value iff x > 0, its negative value iff x < 0 and its
\* neutral value iff x = 0, and so agree on the class of x.
C20_ClassifiedBySignOfX ==
    badge.shown =>
        LET x == badge.changePercent
            known == ~IsNaN(x)
        IN  \A class \in {ClassOfColor(badge.color), ClassOfIcon(badge.icon)} :
                /\ class \in {"positive", "negative", "neutral"}
                /\ class = "positive" <=> (known /\ x > 0)
                /\ class = "negative" <=> (known /\ x < 0)
                /\ class = "neutral" <=> (known /\ x = 0)

\* C20 amended: each returns its positive value iff x > 0, its negative
\* value iff x < 0 and its neutral value iff x = 0 or x is NaN, and the two
\* agree on the class of every x.
C20_ClassifiedBySignOfXOrNeutralForNaN ==
    badge.shown =>
        LET x == badge.changePercent
            known == ~IsNaN(x)
        IN  /\ \A class \in {ClassOfColor(badge.color), ClassOfIcon(badge.icon)} :
                   /\ class \in {"positive", "negative", "neutral"}
                   /\ class = "positive" <=> (known /\ x > 0)
                   /\ class = "negative" <=> (known /\ x < 0)
                   /\ class = "neutral" <=> (~known \/ x = 0)
            /\ ClassOfColor(badge.color) = ClassOfIcon(badge.icon)

\* C20 witness: NaN has been classified, and both functions have returned
\* their neutral value.
C20_Witness ==
    /\ badge.shown
    /\ IsNaN(badge.changePercent)
    /\ badge.color = "text-gray-500"
    /\ badge.icon = "arrow right"


(* ----------------------- rows and their holdings ---------------------- *)

\* the detail row holding i of a call is to have: as given with its quote,
\* or with price, changePercent and contribution 0 without one
RowOf(c, i) ==
    LET h == c.holdings[i]
    IN  IF i \in MatchedAt(c.holdings, c.quotes)
        THEN RowAsGiven(h, LastQuote(c.quotes, h.stockCode))
        ELSE [code |-> h.stockCode, name |-> h.stockName, ratio |-> h.ratio,
              currentPrice |-> 0, changePercent |-> 0, contribution |-> 0]

\* the places of the returned holdings where the row of holding i stands
PlacesOf(c, i) ==
    { k \in DOMAIN c.result.holdings : c.result.holdings[k] = RowOf(c, i) }

\* C21: two rows of equal contribution stand in the returned holdings in
\* the order their holdings have in the input; so do all rows without a
\* quote and all rows whose quote has a change of 0.
C21_SortIsStable ==
    \A c \in JustReturned :
        \A i, j \in DOMAIN c.holdings :
            (i < j /\ RowOf(c, i).contribution = RowOf(c, j).contribution) =>
                /\ PlacesOf(c, i) # {}
                /\ PlacesOf(c, j) # {}
                /\ \A k \in PlacesOf(c, i) : \A m \in PlacesOf(c, j) : k < m

\* C21 witness: a call has returned two rows of contribution 0, one
\* without a quote and one with a quote of change 0, in the order of their
\* holdings, behind a row of positive contribution whose holding came last.
C21_Witness ==
    \E c \in Returned :
        \E i, j, n \in DOMAIN c.holdings :
            /\ i < j /\ j < n
            /\ i \notin MatchedAt(c.holdings, c.quotes)
            /\ j \in MatchedAt(c.holdings, c.quotes)
            /\ RowOf(c, j).contribution = 0
            /\ RowOf(c, n).contribution > 0
            /\ c.result.holdings[1] = RowOf(c, n)
            /\ c.result.holdings[2] = RowOf(c, i)
            /\ c.result.holdings[3] = RowOf(c, j)


\* the orders in which n holdings may be passed
Orderings(n) ==
    { p \in [1..n -> 1..n] : \A i, j \in 1..n : p[i] = p[j] => i = j }

\* the result of the same call with the holdings passed in the order p
Reordered(c, p) ==
    calculateEstimatedNav(fundCode, fundName, c.lastNav,
                          [i \in DOMAIN c.holdings |-> c.holdings[p[i]]],
                          c.quotes, 0)

\* C22: a call on any permutation of the same holdings, with the same
\* quotes, returns the same estimatedNav, estimatedChange,
\* estimatedChangePercent, totalRatio, coverage and isReliable.
C22_HoldingsOrderIrrelevant ==
    \A c \in Returned :
        \A p \in Orderings(Len(c.holdings)) :
            LET r == Reordered(c, p)
            IN  /\ r.estimatedNav = c.result.estimatedNav
                /\ r.estimatedChange = c.result.estimatedChange
                /\ r.estimatedChangePercent = c.result.estimatedChangePercent
                /\ r.dataQuality.totalRatio = c.result.dataQuality.totalRatio
                /\ r.dataQuality.coverage = c.result.dataQuality.coverage
                /\ r.dataQuality.isReliable = c.result.dataQuality.isReliable


(* ----------------------------- the fetchers --------------------------- *)

\* C23: a call of a fetcher that guards fetch with the AbortController
\* timeout eventually returns, whether the upstream stalls before the
\* headers of the response or while the body is read.
C23_GuardedCallEventuallyReturns ==
    (fetcher.pc # "idle"
         /\ fetcher.fn \in { "getFundHoldings", "verifyFundHoldingsApi" })
        ~> (fetcher.pc = "idle")


\* the calls of the fetchers that are over
Fetched == { fetcher.done[i] : i \in DOMAIN fetcher.done }

\* the attempt has failed: a status that is not ok, a network error, an
\* abort, or a body on which the parser throws
Failed(e) ==
    \/ e.kind \in { "notOk", "network", "abort" }
    \/ e.kind = "body" /\ e.text.throws

\* the attempt has brought a body in which the pattern of getFundNav finds
\* a net asset value
Parses(e) == e.kind = "body" /\ e.text.nav # 0

\* C24: no call of a fetcher ends in an exception.  getFundHoldings returns
\* success = false, holdings = [] and total = 0 when the status is not ok,
\* the network fails, the call is aborted or the parser throws.  getFundNav
\* tries its URLs in order, returns the data of the first response that
\* parses and tries no URL after it, and returns null when no URL has
\* brought a response that parses.
C24_FailuresBecomeEmptyValues ==
    \A c \in Fetched :
        /\ c.outcome = "returned"
        /\ (c.fn = "getFundHoldings" /\ Failed(c.events[1])) =>
               /\ c.result.success = FALSE
               /\ c.result.holdings = << >>
               /\ c.result.total = 0
        /\ c.fn = "getFundNav" =>
               /\ \A k \in DOMAIN c.events : c.events[k].url = k
               /\ \A k \in DOMAIN c.events :
                      Parses(c.events[k]) => k = Len(c.events)
               /\ IF Parses(c.events[Len(c.events)])
                  THEN c.result = [isNull |-> FALSE,
                                   nav |-> c.events[Len(c.events)].text.nav]
                  ELSE /\ c.result = Null
                       /\ Len(c.events) = Urls("getFundNav")

\* C24 witness: getFundHoldings has been aborted and has returned the
\* empty result, and getFundNav has returned the data of its second URL
\* after the first had failed.
C24_Witness ==
    \E c, d \in Fetched :
        /\ c.fn = "getFundHoldings"
        /\ c.events[1].kind = "abort"
        /\ c.result.success = FALSE
        /\ d.fn = "getFundNav"
        /\ Len(d.events) = 2
        /\ Failed(d.events[1])
        /\ d.result = [isNull |-> FALSE, nav |-> 12345]


\* C25: the returned holdings are a permutation of the input holdings: one
\* row for every holding, with its stockCode, stockName and ratio; the
\* holdings of one stockCode have a row each, every one with the price and
\* changePercent of the same quote, and each is counted in totalRatio.
C25_RowsArePermutationOfHoldings ==
    \A c \in JustReturned :
        /\ Len(c.result.holdings) = Len(c.holdings)
        /\ \E p \in Orderings(Len(c.holdings)) :
               \A i \in DOMAIN c.holdings :
                   LET row == c.result.holdings[p[i]]
                       h == c.holdings[i]
                   IN  /\ row.code = h.stockCode
                       /\ row.name = h.stockName
                       /\ row.ratio = h.ratio
                       /\ i \in MatchedAt(c.holdings, c.quotes) =>
                              LET q == LastQuote(c.quotes, h.stockCode)
                              IN  /\ row.currentPrice = q.price
                                  /\ row.changePercent = q.changePercent
        /\ RoundingOf(c.result.dataQuality.totalRatio,
                      MatchedRatio(c.holdings, c.quotes), RatioStep)

\* C25 witness: a call with two holdings of one stockCode that has a quote
\* has returned a row for each, and a totalRatio that counts both.
C25_Witness ==
    \E c \in Returned :
        \E i, j \in MatchedAt(c.holdings, c.quotes) :
            /\ i # j
            /\ c.holdings[i].stockCode = c.holdings[j].stockCode
            /\ c.holdings[i].ratio # c.holdings[j].ratio
            /\ \E k, m \in DOMAIN c.result.holdings :
                   /\ k # m
                   /\ c.result.holdings[k].ratio = c.holdings[i].ratio
                   /\ c.result.holdings[m].ratio = c.holdings[j].ratio
            /\ c.result.dataQuality.totalRatio
                   >= c.holdings[i].ratio + c.holdings[j].ratio


\* the codes of the holdings
HeldCodes(hs) == { hs[i].stockCode : i \in DOMAIN hs }

\* the positions of qs whose code no holding has
UnheldAt(hs, qs) == { i \in DOMAIN qs : qs[i].code \notin HeldCodes(hs) }

\* a result without the instant it was computed at
Timeless(r) == [r EXCEPT !.calculationTime = 0]

\* the result of the same call with the quotes qs
WithQuotes(c, qs) ==
    Timeless(calculateEstimatedNav(fundCode, fundName, c.lastNav,
                                   c.holdings, qs, 0))

\* C26: a quote whose code no holding has does not influence the estimate:
\* a call returns, calculationTime apart, what it returns with every such
\* quote removed from quotes and what it returns with one more such quote
\* added to quotes.
C26_UnheldQuotesAreIgnored ==
    \A c \in JustReturned :
        /\ Timeless(c.result)
               = WithQuotes(c, Keep(c.quotes,
                                    DOMAIN c.quotes
                                        \ UnheldAt(c.holdings, c.quotes)))
        /\ \A q \in QuoteUniverse :
               q.code \notin HeldCodes(c.holdings) =>
                   Timeless(c.result) = WithQuotes(c, Append(c.quotes, q))

\* C26 witness: a call has returned with a quote of a held code and a
\* quote of a code that no holding has.
C26_Witness ==
    \E c \in Returned :
        /\ UnheldAt(c.holdings, c.quotes) # {}
        /\ MatchedAt(c.holdings, c.quotes) # {}
        /\ c.result.estimatedChangePercent # 0


\* C27: with ratios that are not negative and the holdings fixed, coverage
\* does not fall when quotes gains codes, and isReliable, once true, stays
\* true: of two calls on the same holdings the one whose quotes cover the
\* codes of the other returns at least its coverage, and so does the call
\* with one more quote, of a code that had none.
C27_CoverageGrowsWithQuotes ==
    /\ \A i, j \in DOMAIN calls :
           (/\ calls[i].holdings = calls[j].holdings
            /\ QuotedCodes(calls[i].quotes) \subseteq QuotedCodes(calls[j].quotes))
               => /\ calls[i].result.dataQuality.coverage
                         <= calls[j].result.dataQuality.coverage
                  /\ calls[i].result.dataQuality.isReliable
                         => calls[j].result.dataQuality.isReliable
    /\ \A c \in JustReturned :
           \A q \in QuoteUniverse :
               q.code \notin QuotedCodes(c.quotes) =>
                   LET more == WithQuotes(c, Append(c.quotes, q))
                   IN  /\ c.result.dataQuality.coverage
                              <= more.dataQuality.coverage
                       /\ c.result.dataQuality.isReliable
                              => more.dataQuality.isReliable

\* C27 witness: a call has returned isReliable true, quotes has gained a
\* code, and a later call on the same holdings has returned a greater
\* coverage and isReliable true.
C27_Witness ==
    \E i, j \in DOMAIN calls :
        /\ i < j
        /\ calls[i].holdings = calls[j].holdings
        /\ QuotedCodes(calls[i].quotes) \subseteq QuotedCodes(calls[j].quotes)
        /\ QuotedCodes(calls[i].quotes) # QuotedCodes(calls[j].quotes)
        /\ calls[i].result.dataQuality.isReliable
        /\ calls[j].result.dataQuality.isReliable
        /\ calls[i].result.dataQuality.coverage
               < calls[j].result.dataQuality.coverage


\* every ratio is at least 0 and the ratios sum to at most 100
WithinWholeFund(hs) ==
    /\ \A i \in DOMAIN hs : hs[i].ratio >= 0
    /\ WholeRatio(hs) <= 100 * RatioScale

\* the largest |changePercent| among the quotes used for the holdings, in
\* units of estimatedChangePercent; 0 when no holding has a quote
MaxAbsChange(c) ==
    LET used == { Abs(LastQuote(c.quotes, c.holdings[i].stockCode).changePercent)
                      : i \in MatchedAt(c.holdings, c.quotes) }
    IN  IF used = {} THEN 0
        ELSE (CHOOSE x \in used : \A y \in used : y <= x)
                 * (ContribScale \div PctScale)

\* C28 as stated: when every ratio is at least 0 and the ratios sum to at
\* most 100, coverage is between 0 and 100 and |estimatedChangePercent| is
\* at most the largest |changePercent| among the matched quotes.
C28_BoundedByLargestChange ==
    \A c \in Returned :
        WithinWholeFund(c.holdings) =>
            /\ c.result.dataQuality.coverage >= 0
            /\ c.result.dataQuality.coverage <= 100 * RatioScale
            /\ Abs(c.result.estimatedChangePercent) <= MaxAbsChange(c)

\* C28 amended: under the same condition coverage is between 0 and 100,
\* and |estimatedChangePercent|, which is rounded to 2 decimals, exceeds
\* the largest |changePercent| among the matched quotes by at most half a
\* unit of the second decimal.
C28_BoundedByLargestChangeRounded ==
    \A c \in Returned :
        WithinWholeFund(c.holdings) =>
            /\ c.result.dataQuality.coverage >= 0
            /\ c.result.dataQuality.coverage <= 100 * RatioScale
            /\ 2 * (Abs(c.result.estimatedChangePercent) - MaxAbsChange(c))
                   <= PercentStep

\* C28 witness: holdings that fill the fund, all with a quote, have
\* returned coverage 100 and an estimatedChangePercent above the largest
\* changePercent of their quotes.
C28_Witness ==
    \E c \in Returned :
        /\ WithinWholeFund(c.holdings)
        /\ MatchedAt(c.holdings, c.quotes) = DOMAIN c.holdings
        /\ c.result.dataQuality.coverage = 100 * RatioScale
        /\ Abs(c.result.estimatedChangePercent) > MaxAbsChange(c)


(* --------------------------- the chat history ------------------------- *)

\* the ids of the sessions of a list
IdsOf(sessions) == { sessions[i].id : i \in DOMAIN sessions }

\* C29: when deleteSession(id) is over, after whatever createNewSession,
\* updateSession and deleteSession came before, no session of that id is in
\* the sessions list or in the 'chatSessions' item; when the session
\* deleted was the current and the only one, the list is one new session,
\* which is the current one.
C29_DeletedSessionIsGone ==
    (chat.last.op = "delete") =>
        /\ chat.last.id \notin IdsOf(chat.sessions)
        /\ chat.stored.item = "json"
        /\ chat.last.id \notin IdsOf(chat.stored.sessions)


(* ------------------------------ the relay ----------------------------- *)

\* C30: the stream of a response begins with 'start' and is closed exactly
\* once; the last event before it is closed is 'done', when the upstream
\* has ended with or without '[DONE]', or 'error', when something has
\* failed; no 'content' comes after 'done'.
C30_StreamIsWellFormed ==
    /\ relay.events # << >> => relay.events[1] = "start"
    /\ relay.closes <= 1
    /\ relay.pc = "closed" =>
           /\ relay.closes = 1
           /\ relay.events[Len(relay.events)] \in { "done", "error" }
    /\ \A i, j \in DOMAIN relay.events :
           (i < j /\ relay.events[i] = "done") => relay.events[j] # "content"

====
